---------------------------- MODULE Spec2Model ----------------------------
(***************************************************************************)
(* Model of the tour planner of egortr2020/log_bot:                        *)
(*   app/services/planner.py    build_segments, parse_human_date           *)
(*   app/services/transport.py  YandexRaspClient, _resolve_place_codes,    *)
(*                              _search_all_options_for_date,              *)
(*                              fetch_real_options                         *)
(*                                                                         *)
(* Conventions.                                                            *)
(*  - A text (city name, code) is a tuple of one-character strings, so     *)
(*    that strip/lower/split act on it as they do in Python.               *)
(*  - A date string "YYYY-MM-DD" is the tuple <<y, m, d>> of its fields.   *)
(*  - A naive datetime is the number of seconds since 2025-01-01T00:00:00  *)
(*    (a date is its proleptic Gregorian ordinal, as date.toordinal()).    *)
(*  - None, where a text is expected, is the tuple <<"None">> (no text:    *)
(*    its only element is not one character); an Optional[datetime] is    *)
(*    <<>> for None and <<dt>> otherwise.                                  *)
(*  - A JSON object is a function on its keys; {} is the empty function.   *)
(*  - A raised exception is recorded by name in the pc of its frame.       *)
(*  - TransportOption.duration_hours, price and currency are left out:     *)
(*    no modelled decision reads them.                                     *)
(***************************************************************************)
EXTENDS Integers, Sequences, FiniteSets, TLC

None == <<"None">>
EmptyDict == <<>>

(***************************************************************************)
(* Bounds of the model.                                                    *)
(***************************************************************************)
\* longest city list handed to build_segments
MaxCities == 3

(***************************************************************************)
(* Calendar arithmetic of datetime (strptime, date(), strftime, timedelta) *)
(***************************************************************************)
IsLeap(y) == (y % 4 = 0) /\ ((y % 100 # 0) \/ (y % 400 = 0))

DaysInMonth(y, m) ==
    IF m = 2 THEN (IF IsLeap(y) THEN 29 ELSE 28)
    ELSE IF m \in {4, 6, 9, 11} THEN 30 ELSE 31

RECURSIVE DaysBeforeMonth(_, _)
DaysBeforeMonth(y, m) ==
    IF m <= 1 THEN 0 ELSE DaysBeforeMonth(y, m - 1) + DaysInMonth(y, m - 1)

DaysBeforeYear(y) ==
    LET p == y - 1 IN p * 365 + (p \div 4) - (p \div 100) + (p \div 400)

\* date(y, m, d).toordinal()
ToOrdinal(y, m, d) == DaysBeforeYear(y) + DaysBeforeMonth(y, m) + d

\* strptime accepts the fields of "%Y-%m-%d" only when they name a real day
ValidDateStr(s) ==
    /\ s[1] \in 1..9999
    /\ s[2] \in 1..12
    /\ s[3] \in 1..DaysInMonth(s[1], s[2])

SecondsPerDay == 24 * 3600
EpochOrdinal == ToOrdinal(2025, 1, 1)

\* datetime(y, m, d, hh, mm, ss)
MkDateTime(y, m, d, hh, mm, ss) ==
    (ToOrdinal(y, m, d) - EpochOrdinal) * SecondsPerDay + hh * 3600 + mm * 60 + ss

\* dt.replace(hour=h, minute=m): date, second (and microsecond) are kept
ReplaceHourMinute(dt, h, m) ==
    (dt \div SecondsPerDay) * SecondsPerDay + h * 3600 + m * 60 + (dt % 60)

\* dt + timedelta(hours=h); h may be negative
AddHours(dt, h) == dt + h * 3600

\* dt.date(), as an ordinal
DateOf(dt) == EpochOrdinal + (dt \div SecondsPerDay)

\* date.fromordinal(n), as the fields <<y, m, d>> that strftime("%Y-%m-%d") prints
FromOrdinal(n) ==
    LET n0 == n - 1
        n400 == n0 \div 146097
        r400 == n0 % 146097
        n100 == r400 \div 36524
        r100 == r400 % 36524
        n4 == r100 \div 1461
        r4 == r100 % 1461
        n1 == r4 \div 365
        r1 == r4 % 365
        year == n400 * 400 + 1 + n100 * 100 + n4 * 4 + n1
    IN  IF n1 = 4 \/ n100 = 4 THEN <<year - 1, 12, 31>>
        ELSE LET month == CHOOSE m \in 1..12 :
                              /\ DaysBeforeMonth(year, m) <= r1
                              /\ r1 < DaysBeforeMonth(year, m) + DaysInMonth(year, m)
             IN  <<year, month, r1 - DaysBeforeMonth(year, month) + 1>>

\* parse_human_date: datetime.strptime(date_str.strip(), "%Y-%m-%d"),
\* midnight of that day, or a ValueError
parse_human_date(date_str) ==
    IF ValidDateStr(date_str)
    THEN MkDateTime(date_str[1], date_str[2], date_str[3], 0, 0, 0)
    ELSE "ValueError"

(***************************************************************************)
(* str methods used by transport.py                                        *)
(***************************************************************************)
UpperLetters == <<"A", "B", "C", "D", "E", "F", "G", "H", "I", "J", "K", "L", "M",
                  "N", "O", "P", "Q", "R", "S", "T", "U", "V", "W", "X", "Y", "Z">>
LowerLetters == <<"a", "b", "c", "d", "e", "f", "g", "h", "i", "j", "k", "l", "m",
                  "n", "o", "p", "q", "r", "s", "t", "u", "v", "w", "x", "y", "z">>

LowerChar(c) ==
    IF \E i \in 1..Len(UpperLetters) : UpperLetters[i] = c
    THEN LowerLetters[CHOOSE i \in 1..Len(UpperLetters) : UpperLetters[i] = c]
    ELSE c

\* s.lower()
Lower(s) == [i \in 1..Len(s) |-> LowerChar(s[i])]

IsSpace(c) == c = " "

\* s.split(): the maximal runs of non-space characters, in order
RECURSIVE SplitFrom(_, _, _)
SplitFrom(s, i, word) ==
    IF i > Len(s) THEN (IF word = <<>> THEN <<>> ELSE <<word>>)
    ELSE IF IsSpace(s[i])
         THEN (IF word = <<>> THEN <<>> ELSE <<word>>) \o SplitFrom(s, i + 1, <<>>)
         ELSE SplitFrom(s, i + 1, Append(word, s[i]))

Split(s) == SplitFrom(s, 1, <<>>)

\* " ".join(words)
RECURSIVE JoinSpace(_)
JoinSpace(words) ==
    IF words = <<>> THEN <<>>
    ELSE IF Len(words) = 1 THEN words[1]
    ELSE words[1] \o <<" ">> \o JoinSpace(Tail(words))

\* s.strip()
RECURSIVE LStrip(_)
LStrip(s) == IF s # <<>> /\ IsSpace(s[1]) THEN LStrip(Tail(s)) ELSE s
RECURSIVE RStrip(_)
RStrip(s) ==
    IF s # <<>> /\ IsSpace(s[Len(s)]) THEN RStrip(SubSeq(s, 1, Len(s) - 1)) ELSE s
Strip(s) == RStrip(LStrip(s))

\* s.startswith(c) for a one-character c
StartsWith(s, c) == s # None /\ Len(s) >= 1 /\ s[1] = c

\* transport.py:165  " ".join(name.strip().lower().split())
NormalizeCityKey(name) == JoinSpace(Split(Lower(Strip(name))))

(***************************************************************************)
(* transport.py: static data                                               *)
(***************************************************************************)
Moskva == <<"M", "s", "k">>                  \* "Москва"
SanktPeterburg == <<"S", "-", "P">>          \* "Санкт-Петербург"
Ekaterinburg == <<"E", "k", "b">>            \* "Екатеринбург"

CITY_CODE_MAP ==
    (Moskva :> [city_code |-> <<"c", "2", "1", "3">>])
    @@ (SanktPeterburg :> [city_code |-> <<"c", "2">>])
    @@ (Ekaterinburg :> [city_code |-> <<"c", "5", "4">>])

\* the dataclass PlaceCodes
PlaceCodes(city_code, stations) == [city_code |-> city_code, stations |-> stations]

\* dict.get(key) or [] on a JSON object
GetList(d, k) == IF k \in DOMAIN d THEN d[k] ELSE <<>>
\* dict.get(key) where a text (or None) is expected
GetText(d, k) == IF k \in DOMAIN d THEN d[k] ELSE None
\* dict.get(key) or {}
GetDict(d, k) == IF k \in DOMAIN d THEN d[k] ELSE EmptyDict
\* a or b, for texts: None and "" are falsy
OrText(a, b) == IF a = None \/ a = <<>> THEN b ELSE a

(***************************************************************************)
(* transport.py: parsing of provider payloads                              *)
(***************************************************************************)
\* A JSON timestamp: absent/null, a string that is no ISO timestamp, or an
\* ISO timestamp with its local wall-clock reading and its UTC offset ("" when
\* the string carries none).
NoTimestamp == [str |-> FALSE]
Garbage == [str |-> TRUE, iso |-> FALSE]
IsoStr(local, tz) == [str |-> TRUE, iso |-> TRUE, local |-> local, tz |-> tz]
GetTimestamp(d, k) == IF k \in DOMAIN d THEN d[k] ELSE NoTimestamp

\* transport.py:169  the wall-clock reading with the offset dropped, or None
ParseDtIso(value) ==
    IF ~value.str THEN <<>>
    ELSE IF ~value.iso THEN <<>>
    ELSE <<value.local>>

\* transport.py:198
KindOf(transport_type) ==
    IF transport_type = "plane" THEN "plane"
    ELSE IF transport_type = "train" THEN "train" ELSE "other"

DefaultTitle == <<"r", "/", "p">>            \* "рейс/поезд"

\* transport.py:195  _segment_to_option: <<option>>, or <<>> for None
SegmentToOption(seg) ==
    LET thread == GetDict(seg, "thread")
        transport_type == IF "transport_type" \in DOMAIN thread
                          THEN thread["transport_type"] ELSE "other"
        dep_dt == ParseDtIso(GetTimestamp(seg, "departure"))
        arr_dt == ParseDtIso(GetTimestamp(seg, "arrival"))
        number == OrText(GetText(thread, "number"), <<>>)
        title == OrText(GetText(thread, "title"), OrText(number, DefaultTitle))
    IN  IF dep_dt = <<>> \/ arr_dt = <<>> THEN <<>>
        ELSE << [ kind        |-> KindOf(transport_type),
                  title       |-> title,
                  depart_time |-> dep_dt[1],
                  arrive_time |-> arr_dt[1],
                  thread_uid  |-> GetText(thread, "uid"),
                  from_code   |-> GetText(GetDict(seg, "from"), "code"),
                  to_code     |-> GetText(GetDict(seg, "to"), "code") ] >>

\* transport.py:239  the entry is skipped; and the filter left out
DestinationAny(to_code, allow_to_codes) == FALSE
DestinationRejected(to_code, allow_to_codes) ==
    allow_to_codes # {} /\ to_code \notin allow_to_codes

\* transport.py:231  _parse_segments
RECURSIVE ParseSegmentList(_, _)
ParseSegmentList(segments, allow_to_codes) ==
    IF segments = <<>> THEN <<>>
    ELSE LET seg == Head(segments)
             to_code == GetText(GetDict(seg, "to"), "code")
             rest == ParseSegmentList(Tail(segments), allow_to_codes)
         IN  IF DestinationRejected(to_code, allow_to_codes) THEN rest
             ELSE SegmentToOption(seg) \o rest

ParseSegments(resp_json, allow_to_codes) ==
    ParseSegmentList(GetList(resp_json, "segments"), allow_to_codes)

\* s.get("code") or s.get("yandex_code")
ItemCode(item) == OrText(GetText(item, "code"), GetText(item, "yandex_code"))

\* transport.py:122-127  the first settlement code that starts with "c"
RECURSIVE FirstCityCode(_)
FirstCityCode(settlements) ==
    IF settlements = <<>> THEN None
    ELSE IF StartsWith(ItemCode(Head(settlements)), "c")
         THEN ItemCode(Head(settlements))
         ELSE FirstCityCode(Tail(settlements))

\* transport.py:129-133  every station code that starts with "s", in order
RECURSIVE StationIds(_)
StationIds(stations) ==
    IF stations = <<>> THEN <<>>
    ELSE IF StartsWith(ItemCode(Head(stations)), "s")
         THEN <<ItemCode(Head(stations))>> \o StationIds(Tail(stations))
         ELSE StationIds(Tail(stations))

\* transport.py:119-135  what suggest_place makes of the JSON it got
PlaceCodesOf(data) ==
    PlaceCodes(FirstCityCode(GetList(data, "settlements")),
               StationIds(GetList(data, "stations")))

\* transport.py:265  _collect_dates
RECURSIVE DatesFrom(_, _)
DatesFrom(cur, end) ==
    IF cur <= end THEN <<FromOrdinal(cur)>> \o DatesFrom(cur + 1, end) ELSE <<>>
\* and the same with the day of window_end left out
CollectDatesExclusive(window_start, window_end) ==
    DatesFrom(DateOf(window_start), DateOf(window_end) - 1)
CollectDates(window_start, window_end) ==
    DatesFrom(DateOf(window_start), DateOf(window_end))

\* transport.py:327  city_code or (stations[0] if stations else None)
PrimaryCode(codes) ==
    IF codes.city_code # None /\ codes.city_code # <<>> THEN codes.city_code
    ELSE IF codes.stations # <<>> THEN codes.stations[1] ELSE None

\* transport.py:329  not from_code or not to_code; and the slip `and`
CodesMissingBoth(from_code, to_code) ==
    (from_code = None \/ from_code = <<>>) /\ (to_code = None \/ to_code = <<>>)
CodesMissing(from_code, to_code) ==
    (from_code = None \/ from_code = <<>>) \/ (to_code = None \/ to_code = <<>>)

\* transport.py:339  set([to_code, *to_codes.stations])
AllowToCodes(to_code, to_codes) ==
    {to_code} \cup {to_codes.stations[i] : i \in 1..Len(to_codes.stations)}

\* transport.py:319  not api_key; and a test for None alone
KeyIsNone(key) == key = None
KeyMissing(key) == key = None \/ key = <<>>

\* transport.py:357-360  the option lies outside the window; and the same test
\* with the bounds themselves shut out
OutsideWindowStrict(opt, window_start, window_end) ==
    opt.depart_time <= window_start \/ opt.arrive_time >= window_end
OutsideWindow(opt, window_start, window_end) ==
    opt.depart_time < window_start \/ opt.arrive_time > window_end

\* transport.py:362  (thread_uid or title) + "|" + depart_time.isoformat():
\* the text and the timestamp; the two parts are kept apart
\* and a key that also tells arrivals apart
DedupKeyWithArrival(opt) ==
    <<OrText(opt.thread_uid, opt.title), opt.depart_time, opt.arrive_time>>
DedupKey(opt) == <<OrText(opt.thread_uid, opt.title), opt.depart_time>>

\* transport.py:356-366  the filter and deduplication loop over one query's
\* options; acc is [all_options, seen]
RECURSIVE Aggregate(_, _, _, _)
Aggregate(acc, parsed_options, window_start, window_end) ==
    IF parsed_options = <<>> THEN acc
    ELSE LET opt == Head(parsed_options)
             next == IF OutsideWindow(opt, window_start, window_end) THEN acc
                     ELSE IF DedupKey(opt) \in acc.seen THEN acc
                     ELSE [all_options |-> Append(acc.all_options, opt),
                           seen |-> acc.seen \cup {DedupKey(opt)}]
         IN  Aggregate(next, Tail(parsed_options), window_start, window_end)

\* transport.py:368  list.sort(key=depart_time): stable
RECURSIVE InsertByDepart(_, _)
InsertByDepart(sorted, opt) ==
    IF sorted = <<>> THEN <<opt>>
    ELSE IF sorted[Len(sorted)].depart_time <= opt.depart_time
         THEN Append(sorted, opt)
         ELSE Append(InsertByDepart(SubSeq(sorted, 1, Len(sorted) - 1), opt),
                     sorted[Len(sorted)])
\* and the list left in the order of aggregation
SortSkipped(options) == options
RECURSIVE SortByDepart(_)
SortByDepart(options) ==
    IF options = <<>> THEN <<>>
    ELSE InsertByDepart(SortByDepart(SubSeq(options, 1, Len(options) - 1)),
                        options[Len(options)])

\* transport.py:381, 383  [o for o in options if o.kind == kind]; and a filter
\* that also lets the kind "other" through
RECURSIVE OnlyKindOrOther(_, _)
OnlyKindOrOther(options, kind) ==
    IF options = <<>> THEN <<>>
    ELSE (IF Head(options).kind \in {kind, "other"} THEN <<Head(options)>> ELSE <<>>)
            \o OnlyKindOrOther(Tail(options), kind)
RECURSIVE OnlyKind(_, _)
OnlyKind(options, kind) ==
    IF options = <<>> THEN <<>>
    ELSE (IF Head(options).kind = kind THEN <<Head(options)>> ELSE <<>>)
            \o OnlyKind(Tail(options), kind)

\* transport.py:385, 387  the sort key: 0 if o.kind == kind else 1
KindKey(opt, kind) == IF opt.kind = kind THEN 0 ELSE 1

\* sorted(options, key=...): stable, an option goes behind those of its key;
\* and an insertion that puts it in front of them
RECURSIVE InsertByKindBefore(_, _, _)
InsertByKindBefore(sorted, opt, kind) ==
    IF sorted = <<>> THEN <<opt>>
    ELSE IF KindKey(sorted[Len(sorted)], kind) < KindKey(opt, kind)
         THEN Append(sorted, opt)
         ELSE Append(InsertByKindBefore(SubSeq(sorted, 1, Len(sorted) - 1), opt, kind),
                     sorted[Len(sorted)])
RECURSIVE InsertByKind(_, _, _)
InsertByKind(sorted, opt, kind) ==
    IF sorted = <<>> THEN <<opt>>
    ELSE IF KindKey(sorted[Len(sorted)], kind) <= KindKey(opt, kind)
         THEN Append(sorted, opt)
         ELSE Append(InsertByKind(SubSeq(sorted, 1, Len(sorted) - 1), opt, kind),
                     sorted[Len(sorted)])
RECURSIVE KindFirst(_, _)
KindFirst(options, kind) ==
    IF options = <<>> THEN <<>>
    ELSE InsertByKind(KindFirst(SubSeq(options, 1, Len(options) - 1), kind),
                      options[Len(options)], kind)

\* transport.py:379  filter_and_sort_options
filter_and_sort_options(options, preference) ==
    IF preference = "plane" THEN OnlyKind(options, "plane")
    ELSE IF preference = "train" THEN OnlyKind(options, "train")
    ELSE IF preference = "plane_first" THEN KindFirst(options, "plane")
    ELSE IF preference = "train_first" THEN KindFirst(options, "train")
    ELSE options

\* transport.py:85, in milliseconds; and a schedule one step short
backoffsShort == <<500, 1000, 2000>>
backoffs == <<500, 1000, 2000, 4000>>

\* transport.py:94  the statuses that are retried; and a retry of every
\* status but 200
RetryAnyFailure(status) == status # 200
RetryStatus(status) == status \in {429, 500, 502, 503, 504}

\* transport.py:286-287
limit == 100
max_pages == 10

\* transport.py:289  the page loop runs on; and a loop without the ceiling
PageLoopUnbounded(pages) == TRUE
PageLoopContinues(pages) == pages < max_pages

\* transport.py:302-305  break after this page; and a loop that goes on when
\* the page reports no total
LastPageWhenTotalKnown(resp, offset, parsed) ==
    LET pagination == GetDict(resp, "pagination")
    IN  /\ "total" \in DOMAIN pagination
        /\ (offset + limit >= pagination["total"] \/ parsed = <<>>)
LastPage(resp, offset, parsed) ==
    LET pagination == GetDict(resp, "pagination")
    IN  \/ "total" \notin DOMAIN pagination
        \/ offset + limit >= pagination["total"]
        \/ parsed = <<>>

Transports == <<"plane", "train">>

(***************************************************************************)
(* planner.py: build_segments                                              *)
(***************************************************************************)
\* the show at A is taken to end at 23:00 of its day
ShowEndWrongHour(concert_a_day) == ReplaceHourMinute(concert_a_day, 22, 0)
ShowEnd(concert_a_day) == ReplaceHourMinute(concert_a_day, 23, 0)

\* the artist must be ready at B at 12:00 of the show day
MustBeReady(concert_b_day) == ReplaceHourMinute(concert_b_day, 12, 0)

\* planner.py:52 with the two buffers exchanged
EarliestDepartureSwapped(concert_a_end, before, after) ==
    AddHours(concert_a_end, before)
EarliestDeparture(concert_a_end, before, after) ==
    AddHours(concert_a_end, after)

LatestArrival(must_be_ready_b, before, after) ==
    AddHours(must_be_ready_b, 0 - before)

\* the pair of cities of the i-th iteration (0-based i, as range() counts),
\* and the same with both ends taken from position i
AdjacentPairStuck(cities, i) == <<cities[i + 1], cities[i + 1]>>
AdjacentPair(cities, i) == <<cities[i + 1], cities[i + 2]>>

\* the body of the loop for one (city_a, city_b): the SegmentWindow
SegmentWindow(city_a, city_b, date_a, date_b, before, after) ==
    LET concert_a_day == parse_human_date(date_a)
        concert_b_day == parse_human_date(date_b)
    IN  [ from_city          |-> city_a,
          to_city            |-> city_b,
          earliest_departure |-> EarliestDeparture(ShowEnd(concert_a_day), before, after),
          latest_arrival     |-> LatestArrival(MustBeReady(concert_b_day), before, after),
          concert_from_date  |-> concert_a_day,
          concert_to_date    |-> concert_b_day ]

VARIABLES
    ppc,                  \* build_segments: "idle", "loop", "done", "KeyError", "ValueError"
    cities_ordered,       \* argument: the list of cities
    shows,                \* argument: dict city -> date string
    buffer_before_hours,  \* argument
    buffer_after_hours,   \* argument
    seg_i,                \* the loop variable i
    out                   \* the list being built / returned

plannerVars == <<ppc, cities_ordered, shows, buffer_before_hours,
                 buffer_after_hours, seg_i, out>>

VARIABLES
    api_key,     \* settings.YANDEX_RASP_API_KEY: None or a text
    city_cache,  \* _city_cache: normalized name -> PlaceCodes
    fetch,       \* the frame of fetch_real_options
    query,       \* the frame of _search_all_options_for_date
    http,        \* the frame of YandexRaspClient._get_json
    calls        \* fetch_real_options calls made, and the suggest_place and
                 \* search calls of the present one

transportVars == <<api_key, city_cache, fetch, query, http, calls>>

VARIABLES
    fpc,          \* filter_and_sort_options: "idle", "call", "done"
    real_opts,    \* argument options
    pref,         \* argument preference
    opts_sorted   \* the list returned

preferenceVars == <<fpc, real_opts, pref, opts_sorted>>

VARIABLES
    state,     \* FSMContext: the step of the dialogue (a TourPlanStates), or "None"
    data,      \* FSMContext: the stored plan, a dict
    message    \* the update the last handler was given

dialogueVars == <<state, data, message>>

VARIABLES
    resolvers,  \* the _resolve_place_codes calls of the tasks in progress
    lookups     \* the suggest_place calls that have come back, in order

resolveVars == <<resolvers, lookups>>

vars == <<plannerVars, transportVars, preferenceVars, dialogueVars, resolveVars>>

\* newtour.py:60  state.clear(): no step, no data; no update taken yet
InitDialogue ==
    /\ state = "None"
    /\ data = EmptyDict
    /\ message = [kind |-> "none", body |-> <<>>]

Tasks == {1, 2}
IdleResolver == [pc |-> "idle", city |-> <<>>, key |-> <<>>, result |-> PlaceCodes(None, <<>>)]

\* no call of _resolve_place_codes is in progress
InitResolvers ==
    /\ resolvers = [t \in Tasks |-> IdleResolver]
    /\ lookups = <<>>

\* the inputs the planner is exercised on
PlannerCities == {<<"A">>, <<"B">>}
\* two show dates and a string that names no day
PlannerDates == {<<2025, 11, 10>>, <<2025, 11, 11>>, <<2025, 2, 30>>}
\* dialogue policy: before in [0,72], after in [0,48]
MaxBufferBefore == 72
MaxBufferAfter == 48
\* every value of one buffer beside the scenario's value of the other
\* (before = 12, after = 3), and the four corners of the policy range
BufferPairs ==
    ({12} \X (0..MaxBufferAfter)) \cup ((0..MaxBufferBefore) \X {3})
        \cup ({0, MaxBufferBefore} \X {0, MaxBufferAfter})

RECURSIVE SeqsUpTo(_, _)
SeqsUpTo(S, n) ==
    IF n = 0 THEN {<<>>}
    ELSE LET shorter == SeqsUpTo(S, n - 1)
         IN  shorter \cup {Append(s, x) : s \in {t \in shorter : Len(t) = n - 1}, x \in S}

PartialFunctions(D, R) == UNION {[S -> R] : S \in SUBSET D}

InitPlanner ==
    /\ ppc = "idle"
    /\ cities_ordered = <<>>
    /\ shows = <<>>
    /\ buffer_before_hours = 0
    /\ buffer_after_hours = 0
    /\ seg_i = 0
    /\ out = <<>>

\* build_segments is entered: out = [], the loop starts at i = 0
BuildSegmentsCall(cities, dates, before, after) ==
    /\ ppc = "idle"
    /\ cities_ordered' = cities
    /\ shows' = dates
    /\ buffer_before_hours' = before
    /\ buffer_after_hours' = after
    /\ seg_i' = 0
    /\ out' = <<>>
    /\ ppc' = "loop"
    /\ UNCHANGED transportVars
    /\ UNCHANGED preferenceVars
    /\ UNCHANGED resolveVars

\* one iteration of `for i in range(len(cities_ordered) - 1)`
BuildSegmentsIter ==
    /\ ppc = "loop"
    /\ seg_i < Len(cities_ordered) - 1
    /\ LET pair == AdjacentPair(cities_ordered, seg_i)
           city_a == pair[1]
           city_b == pair[2]
       IN  IF city_a \notin DOMAIN shows \/ city_b \notin DOMAIN shows
           THEN /\ ppc' = "KeyError"
                /\ UNCHANGED <<seg_i, out>>
           ELSE IF ~ValidDateStr(shows[city_a]) \/ ~ValidDateStr(shows[city_b])
           THEN /\ ppc' = "ValueError"
                /\ UNCHANGED <<seg_i, out>>
           ELSE /\ out' = Append(out, SegmentWindow(city_a, city_b, shows[city_a],
                                     shows[city_b], buffer_before_hours,
                                     buffer_after_hours))
                /\ seg_i' = seg_i + 1
                /\ ppc' = "loop"
    /\ UNCHANGED <<cities_ordered, shows, buffer_before_hours, buffer_after_hours>>
    /\ UNCHANGED transportVars
    /\ UNCHANGED preferenceVars
    /\ UNCHANGED dialogueVars
    /\ UNCHANGED resolveVars

\* the loop is exhausted: return out
BuildSegmentsReturn ==
    /\ ppc = "loop"
    /\ seg_i >= Len(cities_ordered) - 1
    /\ ppc' = "done"
    /\ UNCHANGED <<cities_ordered, shows, buffer_before_hours, buffer_after_hours,
                   seg_i, out>>
    /\ UNCHANGED transportVars
    /\ UNCHANGED preferenceVars
    /\ UNCHANGED dialogueVars
    /\ UNCHANGED resolveVars

PlannerCityLists == SeqsUpTo(PlannerCities, MaxCities)
PlannerShows == PartialFunctions(PlannerCities, PlannerDates)
NextPlanner ==
    \/ /\ ppc = "idle"
       /\ \E cities \in PlannerCityLists,
             dates \in PlannerShows,
             p \in BufferPairs :
               /\ BuildSegmentsCall(cities, dates, p[1], p[2])
               /\ UNCHANGED dialogueVars
    \/ BuildSegmentsIter
    \/ BuildSegmentsReturn


(***************************************************************************)
(* transport.py: fetch_real_options and what it calls                      *)
(***************************************************************************)
NoCodes == PlaceCodes(None, <<>>)

\* transport.py:251  key in _city_cache; and a cache that is trusted only for
\* the names it found
CachedIfFound(key, cache) == key \in DOMAIN cache /\ cache[key] # NoCodes
Cached(key, cache) == key \in DOMAIN cache

IdleFetch ==
    [ pc |-> "idle", from_city |-> <<>>, to_city |-> <<>>,
      window_start |-> 0, window_end |-> 0,
      from_codes |-> NoCodes, to_codes |-> NoCodes,
      from_code |-> None, to_code |-> None, allow_to_codes |-> {},
      dates |-> <<>>, date_i |-> 1, transport_i |-> 1,
      all_options |-> <<>>, seen |-> {}, result |-> <<>> ]

IdleQuery ==
    [ pc |-> "idle", date |-> <<>>, transport |-> "", offset |-> 0, pages |-> 0,
      all_options |-> <<>> ]

IdleHttp == [ pc |-> "idle", url |-> "", i |-> 1, log |-> <<>>, result |-> EmptyDict ]

InitTransport(keys) ==
    /\ api_key \in keys
    /\ city_cache = <<>>
    /\ fetch = IdleFetch
    /\ query = IdleQuery
    /\ http = IdleHttp
    /\ calls = [fetch |-> 0, suggest |-> 0, search |-> 0]

\* what the provider (or the network) answers to one GET
\* "error" is an aiohttp.ClientError, "timeout" an asyncio.TimeoutError
NetworkError == [kind |-> "error", status |-> 0, body |-> EmptyDict]
TimeoutError == [kind |-> "timeout", status |-> 0, body |-> EmptyDict]

\* transport.py:99  except (aiohttp.ClientError, asyncio.TimeoutError); and a
\* handler for ClientError alone
CaughtClientErrorOnly(kind) == kind = "error"
Caught(kind) == kind \in {"error", "timeout"}
Response(status, body) == [kind |-> "response", status |-> status, body |-> body]

\* the events of one _get_json call
GetEvent(outcome) == [ev |-> "get", outcome |-> outcome, delay |-> 0]
SleepEvent(delay) == [ev |-> "sleep", outcome |-> NetworkError, delay |-> delay]

\* transport.py:81-86  _get_json is entered
HttpCall(url) == [ pc |-> "attempt", url |-> url, i |-> 1, log |-> <<>>,
                   result |-> EmptyDict ]

\* transport.py:312-323  fetch_real_options is entered
FetchCall(from_city, to_city, window_start, window_end) ==
    /\ fetch.pc = "idle"
    /\ calls' = [fetch |-> calls.fetch + 1, suggest |-> 0, search |-> 0]
    /\ fetch' = [IdleFetch EXCEPT
                    !.pc = IF KeyMissing(api_key) THEN "done" ELSE "resolve_from",
                    !.from_city = from_city, !.to_city = to_city,
                    !.window_start = window_start, !.window_end = window_end]
    /\ UNCHANGED <<api_key, city_cache, query, http>>
    /\ UNCHANGED plannerVars
    /\ UNCHANGED preferenceVars
    /\ UNCHANGED dialogueVars
    /\ UNCHANGED resolveVars

\* the city being resolved at this pc
ResolvedCity == IF fetch.pc \in {"resolve_from", "suggest_from"}
                THEN fetch.from_city ELSE fetch.to_city

\* fetch_real_options goes on with the PlaceCodes pc of the city it asked for
WithCodes(pc) ==
    IF fetch.pc \in {"resolve_from", "suggest_from"}
    THEN [fetch EXCEPT !.from_codes = pc, !.pc = "resolve_to"]
    ELSE [fetch EXCEPT !.to_codes = pc, !.pc = "codes"]

\* transport.py:249-260  _resolve_place_codes up to its return or to the GET
\* of suggest_place (transport.py:105-117)
ResolveBegin ==
    /\ fetch.pc \in {"resolve_from", "resolve_to"}
    /\ LET city == ResolvedCity
           key == NormalizeCityKey(city)
       IN  IF Cached(key, city_cache)
           THEN /\ fetch' = WithCodes(city_cache[key])
                /\ UNCHANGED <<city_cache, http, calls>>
           ELSE IF city \in DOMAIN CITY_CODE_MAP
           THEN LET pc == PlaceCodes(GetText(CITY_CODE_MAP[city], "city_code"),
                                     GetList(CITY_CODE_MAP[city], "stations"))
                IN  /\ city_cache' = (key :> pc) @@ city_cache
                    /\ fetch' = WithCodes(pc)
                    /\ UNCHANGED <<http, calls>>
           ELSE /\ calls' = [calls EXCEPT !.suggest = @ + 1]
                /\ IF Strip(city) = <<>>
                   THEN /\ city_cache' = (key :> NoCodes) @@ city_cache
                        /\ fetch' = WithCodes(NoCodes)
                        /\ UNCHANGED http
                   ELSE /\ http' = HttpCall("suggest")
                        /\ fetch' = [fetch EXCEPT !.pc =
                                        IF fetch.pc = "resolve_from"
                                        THEN "suggest_from" ELSE "suggest_to"]
                        /\ UNCHANGED city_cache
    /\ UNCHANGED <<api_key, query>>
    /\ UNCHANGED plannerVars
    /\ UNCHANGED preferenceVars
    /\ UNCHANGED dialogueVars
    /\ UNCHANGED resolveVars

\* transport.py:88-101  one iteration of `for delay in backoffs`; an exception
\* that the handler does not catch leaves _get_json and, through suggest_place
\* or search, fetch_real_options
HttpAttempt(outcome) ==
    /\ http.pc = "attempt"
    /\ http.i <= Len(backoffs)
    /\ fetch' = IF outcome.kind # "response" /\ ~Caught(outcome.kind)
                THEN [fetch EXCEPT !.pc = "raised"] ELSE fetch
    /\ LET delay == backoffs[http.i]
       IN  IF outcome.kind # "response"
           THEN IF Caught(outcome.kind)
                THEN http' = [http EXCEPT
                                 !.log = @ \o <<GetEvent(outcome), SleepEvent(delay)>>,
                                 !.i = @ + 1]
                ELSE http' = [http EXCEPT !.log = Append(@, GetEvent(outcome)),
                                          !.pc = "raised"]
           ELSE IF outcome.status = 200
           THEN http' = [http EXCEPT !.log = Append(@, GetEvent(outcome)),
                                     !.result = outcome.body, !.pc = "ret"]
           ELSE IF RetryStatus(outcome.status)
           THEN http' = [http EXCEPT
                            !.log = @ \o <<GetEvent(outcome), SleepEvent(delay)>>,
                            !.i = @ + 1]
           ELSE http' = [http EXCEPT !.log = Append(@, GetEvent(outcome)),
                                     !.result = EmptyDict, !.pc = "ret"]
    /\ UNCHANGED <<api_key, city_cache, query, calls>>
    /\ UNCHANGED plannerVars
    /\ UNCHANGED preferenceVars
    /\ UNCHANGED dialogueVars
    /\ UNCHANGED resolveVars

\* transport.py:103  the schedule is used up
GetJsonExhausted ==
    /\ http.pc = "attempt"
    /\ http.i > Len(backoffs)
    /\ http' = [http EXCEPT !.result = EmptyDict, !.pc = "ret"]
    /\ UNCHANGED <<api_key, city_cache, fetch, query, calls>>
    /\ UNCHANGED plannerVars
    /\ UNCHANGED preferenceVars
    /\ UNCHANGED dialogueVars
    /\ UNCHANGED resolveVars

\* transport.py:117-135 and 261-262  suggest_place has its JSON:
\* _resolve_place_codes stores and returns the PlaceCodes
SuggestReturn ==
    /\ fetch.pc \in {"suggest_from", "suggest_to"}
    /\ http.pc = "ret"
    /\ LET pc == PlaceCodesOf(http.result)
       IN  /\ city_cache' = (NormalizeCityKey(ResolvedCity) :> pc) @@ city_cache
           /\ fetch' = WithCodes(pc)
    /\ http' = IdleHttp
    /\ UNCHANGED <<api_key, query, calls>>
    /\ UNCHANGED plannerVars
    /\ UNCHANGED preferenceVars
    /\ UNCHANGED dialogueVars
    /\ UNCHANGED resolveVars

\* transport.py:327-344
CheckCodes ==
    /\ fetch.pc = "codes"
    /\ LET from_code == PrimaryCode(fetch.from_codes)
           to_code == PrimaryCode(fetch.to_codes)
       IN  IF CodesMissing(from_code, to_code)
           THEN fetch' = [fetch EXCEPT !.from_code = from_code, !.to_code = to_code,
                                       !.result = <<>>, !.pc = "done"]
           ELSE fetch' = [fetch EXCEPT
                            !.from_code = from_code, !.to_code = to_code,
                            !.allow_to_codes = AllowToCodes(to_code, fetch.to_codes),
                            !.dates = CollectDates(fetch.window_start, fetch.window_end),
                            !.date_i = 1, !.transport_i = 1,
                            !.all_options = <<>>, !.seen = {}, !.pc = "query"]
    /\ UNCHANGED <<api_key, city_cache, query, http, calls>>
    /\ UNCHANGED plannerVars
    /\ UNCHANGED preferenceVars
    /\ UNCHANGED dialogueVars
    /\ UNCHANGED resolveVars

\* transport.py:346-355 and 284-287  the next (date, transport) of the two
\* loops: _search_all_options_for_date is entered
QueryStart ==
    /\ fetch.pc = "query"
    /\ fetch.date_i <= Len(fetch.dates)
    /\ query' = [ pc |-> "call", date |-> fetch.dates[fetch.date_i],
                  transport |-> Transports[fetch.transport_i],
                  offset |-> 0, pages |-> 0, all_options |-> <<>> ]
    /\ fetch' = [fetch EXCEPT !.pc = "in_query"]
    /\ UNCHANGED <<api_key, city_cache, http, calls>>
    /\ UNCHANGED plannerVars
    /\ UNCHANGED preferenceVars
    /\ UNCHANGED dialogueVars
    /\ UNCHANGED resolveVars

\* transport.py:289-297 and 137-159  one more page is asked for
SearchCall ==
    /\ query.pc = "call"
    /\ PageLoopContinues(query.pages)
    /\ query' = [query EXCEPT !.pc = "await", !.pages = @ + 1]
    /\ http' = HttpCall("search")
    /\ calls' = [calls EXCEPT !.search = @ + 1]
    /\ UNCHANGED <<api_key, city_cache, fetch>>
    /\ UNCHANGED plannerVars
    /\ UNCHANGED preferenceVars
    /\ UNCHANGED dialogueVars
    /\ UNCHANGED resolveVars

\* transport.py:289, 309  range(max_pages) is used up
PagesExhausted ==
    /\ query.pc = "call"
    /\ ~PageLoopContinues(query.pages)
    /\ query' = [query EXCEPT !.pc = "return"]
    /\ UNCHANGED <<api_key, city_cache, fetch, http, calls>>
    /\ UNCHANGED plannerVars
    /\ UNCHANGED preferenceVars
    /\ UNCHANGED dialogueVars
    /\ UNCHANGED resolveVars

\* transport.py:299-307  the page is parsed; break or go on to the next offset
SearchReturn ==
    /\ query.pc = "await"
    /\ http.pc = "ret"
    /\ LET resp == http.result
           parsed == ParseSegments(resp, fetch.allow_to_codes)
       IN  IF LastPage(resp, query.offset, parsed)
           THEN query' = [query EXCEPT !.all_options = @ \o parsed, !.pc = "return"]
           ELSE query' = [query EXCEPT !.all_options = @ \o parsed,
                                       !.offset = @ + limit, !.pc = "call"]
    /\ http' = IdleHttp
    /\ UNCHANGED <<api_key, city_cache, fetch, calls>>
    /\ UNCHANGED plannerVars
    /\ UNCHANGED preferenceVars
    /\ UNCHANGED dialogueVars
    /\ UNCHANGED resolveVars

\* transport.py:309 and 356-366  the query returns; its options are filtered
\* by the window and deduplicated; the loops advance
QueryReturn ==
    /\ fetch.pc = "in_query"
    /\ query.pc = "return"
    /\ LET acc == Aggregate([all_options |-> fetch.all_options, seen |-> fetch.seen],
                            query.all_options, fetch.window_start, fetch.window_end)
           last == fetch.transport_i = Len(Transports)
       IN  fetch' = [fetch EXCEPT
                        !.all_options = acc.all_options, !.seen = acc.seen,
                        !.transport_i = IF last THEN 1 ELSE @ + 1,
                        !.date_i = IF last THEN @ + 1 ELSE @,
                        !.pc = "query"]
    /\ query' = IdleQuery
    /\ UNCHANGED <<api_key, city_cache, http, calls>>
    /\ UNCHANGED plannerVars
    /\ UNCHANGED preferenceVars
    /\ UNCHANGED dialogueVars
    /\ UNCHANGED resolveVars

\* transport.py:368-376  the loops are over: sort and return
FetchFinish ==
    /\ fetch.pc = "query"
    /\ fetch.date_i > Len(fetch.dates)
    /\ fetch' = [fetch EXCEPT !.all_options = SortByDepart(@),
                              !.result = SortByDepart(fetch.all_options),
                              !.pc = "done"]
    /\ UNCHANGED <<api_key, city_cache, query, http, calls>>
    /\ UNCHANGED plannerVars
    /\ UNCHANGED preferenceVars
    /\ UNCHANGED dialogueVars
    /\ UNCHANGED resolveVars

\* newtour.py:319-324  the caller has the list; it may fetch the next segment
FetchReturn ==
    /\ fetch.pc = "done"
    /\ fetch' = IdleFetch
    /\ UNCHANGED <<api_key, city_cache, query, http, calls>>
    /\ UNCHANGED plannerVars
    /\ UNCHANGED preferenceVars
    /\ UNCHANGED dialogueVars
    /\ UNCHANGED resolveVars


\* filter_and_sort_options has not been called
InitPreference ==
    /\ fpc = "idle"
    /\ real_opts = <<>>
    /\ pref = ""
    /\ opts_sorted = <<>>

\* newtour.py:337  opts_sorted = filter_and_sort_options(real_opts, pref)
FilterAndSortCall ==
    /\ fpc = "call"
    /\ opts_sorted' = filter_and_sort_options(real_opts, pref)
    /\ fpc' = "done"
    /\ UNCHANGED <<real_opts, pref>>
    /\ UNCHANGED plannerVars
    /\ UNCHANGED transportVars
    /\ UNCHANGED dialogueVars
    /\ UNCHANGED resolveVars

(***************************************************************************)
(* The environment: callers' arguments and provider answers                *)
(***************************************************************************)
\* fetch_real_options calls that one process makes
MaxFetches == 2

ApiKey == <<"k", "e", "y">>

Kazan == <<"K", "z", "n">>                   \* a city the table does not list
MoskvaLower == <<"m", "s", "k">>             \* "москва"
Blank == <<" ">>

\* the window build_segments makes for shows on date_a and date_b
Window(date_a, date_b, before, after) ==
    LET seg == SegmentWindow(<<"A">>, <<"B">>, date_a, date_b, before, after)
    IN  <<seg.earliest_departure, seg.latest_arrival>>

\* 2025-11-11T02:00 .. 2025-11-11T00:00: inverted within one day
WindowInverted == Window(<<2025, 11, 10>>, <<2025, 11, 11>>, 12, 3)
\* 2025-11-11T02:00 .. 2025-11-09T12:00: inverted, no date between
WindowNoDates == Window(<<2025, 11, 10>>, <<2025, 11, 11>>, 48, 3)
\* 2025-11-11T02:00 .. 2025-11-11T23:00: one date
WindowOneDay == Window(<<2025, 11, 10>>, <<2025, 11, 12>>, 13, 3)
\* 2025-11-11T02:00 .. 2025-11-12T00:00: two dates
WindowTwoDays == Window(<<2025, 11, 10>>, <<2025, 11, 12>>, 12, 3)

CodeMoskva == <<"c", "2", "1", "3">>
CodeKazan == <<"c", "4", "3">>
StationKazan == <<"s", "9", "6">>
CodeElsewhere == <<"c", "9">>

\* answers of the suggest endpoint
SuggestKazan ==
    [ settlements |-> << [code |-> CodeKazan] >>,
      stations |-> << [code |-> StationKazan] >> ]
SuggestStationsOnly ==
    [ settlements |-> << [code |-> <<"x", "1">>] >>,
      stations |-> << [yandex_code |-> StationKazan], [code |-> <<"b", "7">>] >> ]

\* one entry of a search page
Entry(transport_type, uid, title, departure, arrival, to_code) ==
    [ thread |-> [transport_type |-> transport_type, uid |-> uid, title |-> title],
      departure |-> departure, arrival |-> arrival,
      from |-> [code |-> CodeMoskva], to |-> [code |-> to_code] ]

\* 05:00 -> 09:00 on 2025-11-11
EntryMorning(to_code) ==
    Entry("plane", <<"u", "1">>, <<"S", "U">>,
          IsoStr(MkDateTime(2025, 11, 11, 5, 0, 0), "+03:00"),
          IsoStr(MkDateTime(2025, 11, 11, 9, 0, 0), "+03:00"), to_code)
\* departs 01:00, before every window here opens
EntryEarly(to_code) ==
    Entry("train", <<"u", "2">>, <<"0", "1">>,
          IsoStr(MkDateTime(2025, 11, 11, 1, 0, 0), "+03:00"),
          IsoStr(MkDateTime(2025, 11, 11, 8, 0, 0), "+03:00"), to_code)
\* leaves 03:00 (+03:00) and lands 23:30 (-08:00) the day before on the local
\* clock: the arrival reads earlier than the departure
EntryWestbound(to_code) ==
    Entry("plane", <<"u", "3">>, <<"D", "L">>,
          IsoStr(MkDateTime(2025, 11, 11, 3, 0, 0), "+03:00"),
          IsoStr(MkDateTime(2025, 11, 10, 23, 30, 0), "-08:00"), to_code)
\* no usable timestamps
EntryUntimed(to_code) ==
    Entry("bus", None, None, Garbage, NoTimestamp, to_code)

\* 07:00 -> 10:00 on 2025-11-11, and no "to" object at all
EntryNoDestination ==
    [ thread |-> [transport_type |-> "train", uid |-> <<"u", "4">>, title |-> <<"0", "3">>],
      departure |-> IsoStr(MkDateTime(2025, 11, 11, 7, 0, 0), "+03:00"),
      arrival |-> IsoStr(MkDateTime(2025, 11, 11, 10, 0, 0), "+03:00"),
      from |-> [code |-> CodeMoskva] ]

Page(segments) == [segments |-> segments]
PageOf(segments, total) == [segments |-> segments, pagination |-> [total |-> total]]

Cross(A, B) == {<<a, b>> : a \in A, b \in B}

\* a fetch_real_options call with arguments from Pairs and Windows, while the
\* process has made fewer than n
DoFetchCall(n, Pairs, Windows) ==
    /\ fetch.pc = "idle"
    /\ calls.fetch < n
    /\ \E p \in Pairs, w \in Windows : FetchCall(p[1], p[2], w[1], w[2])

\* one GET answered from the outcomes of its endpoint
DoHttpAttempt(SuggestOutcomes, SearchOutcomes) ==
    /\ http.pc = "attempt"
    /\ \E outcome \in (IF http.url = "suggest" THEN SuggestOutcomes ELSE SearchOutcomes) :
          HttpAttempt(outcome)

(***************************************************************************)
(* Specifications                                                          *)
(***************************************************************************)
\* nothing has been called yet; a key is configured
InitIdle ==
    /\ InitPlanner
    /\ InitTransport({ApiKey})
    /\ InitPreference
    /\ InitDialogue
    /\ InitResolvers

\* the same, the key being configured, empty or absent
InitFetch ==
    /\ InitPlanner
    /\ InitTransport({None, <<>>, ApiKey})
    /\ InitPreference
    /\ InitDialogue
    /\ InitResolvers

\* build_segments on its own
SpecPlanner == InitIdle /\ [][NextPlanner]_vars

\* _get_json under every kind of answer: one fetch Kazan -> Moskva
HttpStatuses == {429, 500, 502, 503, 504, 400, 404}
HttpSuggestOutcomes ==
    {NetworkError, TimeoutError} \cup {Response(st, EmptyDict) : st \in HttpStatuses}
        \cup {Response(200, SuggestKazan), Response(200, EmptyDict)}
HttpSearchOutcomes ==
    {NetworkError, TimeoutError} \cup {Response(st, EmptyDict) : st \in HttpStatuses}
        \cup {Response(200, Page(<<EntryMorning(CodeMoskva)>>)), Response(200, EmptyDict)}
HttpPairs == {<<Kazan, Moskva>>}
HttpWindows == {WindowOneDay}
NextHttp ==
    \/ DoFetchCall(1, HttpPairs, HttpWindows)
    \/ ResolveBegin
    \/ DoHttpAttempt(HttpSuggestOutcomes, HttpSearchOutcomes)
    \/ GetJsonExhausted
    \/ SuggestReturn
    \/ CheckCodes
    \/ QueryStart
    \/ SearchCall
    \/ SearchReturn
    \/ QueryReturn
    \/ FetchFinish
    \/ FetchReturn
SpecHttp == InitIdle /\ [][NextHttp]_vars

\* pagination: one fetch Moskva -> Sankt-Peterburg over a one-day window
CodeSpb == <<"c", "2">>
PagingPages ==
    {EmptyDict}
        \cup {Page(segs) : segs \in {<<EntryMorning(CodeSpb)>>, <<EntryMorning(CodeElsewhere)>>}}
        \cup {PageOf(segs, total) :
                segs \in {<<>>, <<EntryMorning(CodeSpb)>>,
                          <<EntryUntimed(CodeSpb), EntryMorning(CodeElsewhere)>>},
                total \in {0, 250, 100000}}
PagingSearchOutcomes ==
    {NetworkError, Response(404, EmptyDict)} \cup {Response(200, b) : b \in PagingPages}
PagingPairs == {<<Moskva, SanktPeterburg>>}
PagingWindows == {WindowOneDay}
PagingSuggestOutcomes == {}
NextPaging ==
    \/ DoFetchCall(1, PagingPairs, PagingWindows)
    \/ ResolveBegin
    \/ DoHttpAttempt(PagingSuggestOutcomes, PagingSearchOutcomes)
    \/ GetJsonExhausted
    \/ CheckCodes
    \/ QueryStart
    \/ SearchCall
    \/ PagesExhausted
    \/ SearchReturn
    \/ QueryReturn
    \/ FetchFinish
    \/ FetchReturn
SpecPaging == InitIdle /\ [][NextPaging]_vars

\* fetch_real_options as a whole: with and without a key, known, unknown and
\* blank cities, feasible and inverted windows
FetchCities == {Moskva, Kazan, Blank}
FetchWindows == {WindowInverted, WindowNoDates, WindowOneDay, WindowTwoDays}
FetchSuggestOutcomes ==
    {NetworkError, TimeoutError, Response(404, EmptyDict), Response(200, EmptyDict),
     Response(200, SuggestKazan), Response(200, SuggestStationsOnly)}
FetchPages ==
    {EmptyDict}
        \cup {Page(<<EntryMorning(c)>>) : c \in {CodeMoskva, CodeKazan, StationKazan}}
        \cup {Page(<<EntryWestbound(c)>>) : c \in {CodeMoskva, CodeKazan}}
        \cup {Page(<<EntryEarly(CodeKazan), EntryUntimed(CodeKazan)>>),
              PageOf(<<EntryMorning(CodeKazan)>>, 150),
              Page(<<EntryNoDestination, EntryMorning(StationKazan),
                     EntryWestbound(CodeElsewhere)>>)}
FetchSearchOutcomes ==
    {NetworkError, TimeoutError, Response(404, EmptyDict), Response(503, EmptyDict)}
        \cup {Response(200, b) : b \in FetchPages}
FetchPairs == Cross(FetchCities, FetchCities)
NextFetch ==
    \/ DoFetchCall(1, FetchPairs, FetchWindows)
    \/ ResolveBegin
    \/ DoHttpAttempt(FetchSuggestOutcomes, FetchSearchOutcomes)
    \/ GetJsonExhausted
    \/ SuggestReturn
    \/ CheckCodes
    \/ QueryStart
    \/ SearchCall
    \/ SearchReturn
    \/ QueryReturn
    \/ FetchFinish
    \/ FetchReturn
SpecFetch == InitFetch /\ [][NextFetch]_vars

\* the same, the event loop running the call on and every GET ending in an
\* answer, an error or a timeout
SpecFetchFair == SpecFetch /\ WF_vars(NextFetch)

\* the resolver over the life of a process: several fetches, spellings of
\* listed and unlisted cities, a provider that may know a name or not
ResolveCities == {Moskva, MoskvaLower, Kazan}
ResolveSuggestOutcomes ==
    {Response(404, EmptyDict), Response(200, SuggestKazan),
     Response(200, [settlements |-> << [code |-> CodeMoskva] >>])}
ResolvePairs == Cross(ResolveCities, ResolveCities)
ResolveWindows == {WindowNoDates, WindowOneDay}
ResolveSearchOutcomes == {Response(404, EmptyDict)}
NextResolve ==
    \/ DoFetchCall(MaxFetches, ResolvePairs, ResolveWindows)
    \/ ResolveBegin
    \/ DoHttpAttempt(ResolveSuggestOutcomes, ResolveSearchOutcomes)
    \/ SuggestReturn
    \/ CheckCodes
    \/ QueryStart
    \/ SearchCall
    \/ SearchReturn
    \/ QueryReturn
    \/ FetchFinish
    \/ FetchReturn
SpecResolve == InitIdle /\ [][NextResolve]_vars

\* spellings of one unlisted city ("Нижний-Новгород"): with a dash, with a
\* space, and in another case with leading and repeated whitespace
NizhniyDash == <<"N", "-", "N">>
NizhniySpace == <<"N", " ", "N">>
NizhniyLoose == <<" ", "n", " ", " ", "N">>
CodeNizhniy == <<"c", "4", "7">>
SuggestNizhniy == [ settlements |-> << [code |-> CodeNizhniy] >> ]
SpellingCities == {NizhniyDash, NizhniySpace, NizhniyLoose}
SpellingSuggestOutcomes == {Response(404, EmptyDict), Response(200, SuggestNizhniy)}
SpellingPairs == Cross(SpellingCities, SpellingCities)
SpellingWindows == {WindowNoDates, WindowOneDay}
SpellingSearchOutcomes == {Response(404, EmptyDict), Response(200, EmptyDict)}
NextSpelling ==
    \/ DoFetchCall(MaxFetches, SpellingPairs, SpellingWindows)
    \/ ResolveBegin
    \/ DoHttpAttempt(SpellingSuggestOutcomes, SpellingSearchOutcomes)
    \/ SuggestReturn
    \/ CheckCodes
    \/ QueryStart
    \/ SearchCall
    \/ SearchReturn
    \/ QueryReturn
    \/ FetchFinish
    \/ FetchReturn
SpecSpelling == InitIdle /\ [][NextSpelling]_vars

\* the window filter at its bounds: one fetch Moskva -> Sankt-Peterburg over
\* 2025-11-11T02:00 .. 23:00, entries on and one second off either bound
EntryAtStart ==
    Entry("plane", <<"b", "1">>, <<"S", "U">>,
          IsoStr(WindowOneDay[1], "+03:00"), IsoStr(WindowOneDay[1] + 3600, "+03:00"),
          CodeSpb)
EntryBeforeStart ==
    Entry("plane", <<"b", "2">>, <<"S", "U">>,
          IsoStr(WindowOneDay[1] - 1, "+03:00"), IsoStr(WindowOneDay[1] + 3600, "+03:00"),
          CodeSpb)
EntryAtEnd ==
    Entry("train", <<"b", "3">>, <<"0", "1">>,
          IsoStr(WindowOneDay[2] - 3600, "+03:00"), IsoStr(WindowOneDay[2], "+03:00"),
          CodeSpb)
EntryAfterEnd ==
    Entry("train", <<"b", "4">>, <<"0", "1">>,
          IsoStr(WindowOneDay[2] - 3600, "+03:00"), IsoStr(WindowOneDay[2] + 1, "+03:00"),
          CodeSpb)
BoundaryEntries == {EntryAtStart, EntryBeforeStart, EntryAtEnd, EntryAfterEnd}
MaxPageEntries == 2
BoundaryPages == {Page(segs) : segs \in SeqsUpTo(BoundaryEntries, MaxPageEntries)}
BoundarySearchOutcomes ==
    {Response(404, EmptyDict)} \cup {Response(200, b) : b \in BoundaryPages}
BoundarySuggestOutcomes == {}
BoundaryPairs == {<<Moskva, SanktPeterburg>>}
BoundaryWindows == {WindowOneDay}
NextWindow ==
    \/ DoFetchCall(1, BoundaryPairs, BoundaryWindows)
    \/ ResolveBegin
    \/ DoHttpAttempt(BoundarySuggestOutcomes, BoundarySearchOutcomes)
    \/ CheckCodes
    \/ QueryStart
    \/ SearchCall
    \/ SearchReturn
    \/ QueryReturn
    \/ FetchFinish
    \/ FetchReturn
SpecWindow == InitIdle /\ [][NextWindow]_vars

\* deduplication: one fetch Moskva -> Sankt-Peterburg over two dates; entries
\* that share a thread id and a departure, or a title and a departure
Trip(transport_type, uid, title, dep_hour, arr_hour) ==
    Entry(transport_type, uid, title,
          IsoStr(MkDateTime(2025, 11, 11, dep_hour, 0, 0), "+03:00"),
          IsoStr(MkDateTime(2025, 11, 11, arr_hour, 0, 0), "+03:00"), CodeSpb)
TripFlight == Trip("plane", <<"u", "1">>, <<"S", "U">>, 5, 9)
\* the thread and departure of TripFlight, another arrival and kind
TripFlightAgain == Trip("train", <<"u", "1">>, <<"0", "1">>, 5, 10)
\* the thread of TripFlight an hour later
TripFlightLater == Trip("plane", <<"u", "1">>, <<"S", "U">>, 6, 9)
\* no thread id: the title stands in
TripUntitled == Trip("train", None, <<"0", "2">>, 5, 9)
TripUntitledAgain == Trip("plane", None, <<"0", "2">>, 5, 11)
\* a thread id that reads like the title of TripUntitled
TripNamedLikeTitle == Trip("train", <<"0", "2">>, <<"S", "U">>, 5, 12)
DedupPages ==
    {EmptyDict,
     Page(<<TripFlight>>), Page(<<TripFlightAgain>>), Page(<<TripFlightLater, TripFlight>>),
     Page(<<TripUntitledAgain, TripNamedLikeTitle>>), Page(<<TripUntitled>>),
     PageOf(<<TripFlight, TripUntitled>>, 150), PageOf(<<TripFlightAgain>>, 150)}
DedupSearchOutcomes == {Response(200, b) : b \in DedupPages}
DedupSuggestOutcomes == {}
DedupPairs == {<<Moskva, SanktPeterburg>>}
DedupWindows == {WindowTwoDays}
NextDedup ==
    \/ DoFetchCall(1, DedupPairs, DedupWindows)
    \/ ResolveBegin
    \/ DoHttpAttempt(DedupSuggestOutcomes, DedupSearchOutcomes)
    \/ CheckCodes
    \/ QueryStart
    \/ SearchCall
    \/ SearchReturn
    \/ QueryReturn
    \/ FetchFinish
    \/ FetchReturn
SpecDedup == InitIdle /\ [][NextDedup]_vars

\* filter_and_sort_options on lists of up to MaxOptions options of the three
\* kinds, under the preferences of the keyboard (newtour.py:206-209), the
\* names plane_only / train_only / any, and no preference
MaxOptions == 4
OptionOf(seg) == SegmentToOption(seg)[1]
SampleOptions ==
    {OptionOf(TripFlight), OptionOf(TripFlightLater), OptionOf(TripUntitled),
     OptionOf(Trip("bus", <<"u", "9">>, <<"B", "S">>, 7, 9))}
OptionLists == SeqsUpTo(SampleOptions, MaxOptions)
Preferences ==
    {"plane", "train", "plane_first", "train_first", "plane_only", "train_only", "any", ""}
InitPreferenceCall ==
    /\ InitPlanner
    /\ InitTransport({ApiKey})
    /\ fpc = "call"
    /\ real_opts \in OptionLists
    /\ pref \in Preferences
    /\ opts_sorted = <<>>
    /\ InitDialogue
    /\ InitResolvers
NextPreference == FilterAndSortCall
SpecPreference == InitPreferenceCall /\ [][NextPreference]_vars

\* the dates and transport types queried: one fetch Moskva -> Sankt-Peterburg
\* over windows of no, one, two and three dates (the last across the end of a
\* month), every search answered by one page without pagination
\* 2025-11-30T02:00 .. 2025-12-02T00:00
WindowThreeDays == Window(<<2025, 11, 29>>, <<2025, 12, 2>>, 12, 3)
DatesWindows ==
    {WindowInverted, WindowNoDates, WindowOneDay, WindowTwoDays, WindowThreeDays}
DatesPairs == {<<Moskva, SanktPeterburg>>}
DatesSuggestOutcomes == {}
DatesSearchOutcomes ==
    {Response(404, EmptyDict), Response(200, EmptyDict),
     Response(200, Page(<<EntryMorning(CodeSpb)>>)),
     Response(200, Page(<<EntryWestbound(CodeSpb)>>))}
NextDates ==
    \/ DoFetchCall(1, DatesPairs, DatesWindows)
    \/ ResolveBegin
    \/ DoHttpAttempt(DatesSuggestOutcomes, DatesSearchOutcomes)
    \/ CheckCodes
    \/ QueryStart
    \/ SearchCall
    \/ SearchReturn
    \/ QueryReturn
    \/ FetchFinish
    \/ FetchReturn
SpecDates == InitIdle /\ [][NextDates]_vars

(***************************************************************************)
(* newtour.py: the dialogue                                                *)
(***************************************************************************)
\* One update is handled at a time.  A text message is given as the pieces
\* the handler's own split produces: the comma-separated pieces of a city
\* list, the lines of a dates message (each with or without a separator, the
\* date as its dot-separated fields), an integer literal or another text.

\* state.update_data(k=v)
UpdateData(d, k, v) == (k :> v) @@ d

\* newtour.py:74-75  [c.strip() for c in raw.split(",") if c.strip()]
CitiesOf(pieces) ==
    SelectSeq([i \in 1..Len(pieces) |-> Strip(pieces[i])], LAMBDA c : c # <<>>)

\* newtour.py:77  len(cities) < 2; and a check that lets one city through
TooFewCitiesOne(cities) == Len(cities) < 1
TooFewCities(cities) == Len(cities) < 2

\* newtour.py:116-119  the dashes become spaces
DashToSpace(s) == [i \in 1..Len(s) |-> IF s[i] = "-" THEN " " ELSE s[i]]

\* newtour.py:106-122  norm_city
norm_city(name) == JoinSpace(Split(DashToSpace(JoinSpace(Split(Lower(Strip(name)))))))

\* a line "city_part <separator> date_part", and a line without a separator
Line(city_part, date_part) == [sep |-> TRUE, city_part |-> city_part, date_part |-> date_part]
NoSeparator == [sep |-> FALSE, city_part |-> <<>>, date_part |-> <<>>]

\* newtour.py:160-162  d, m, y = date_part.split("."); f"{y}-{m}-{d}"
IsoDate(fields) == <<fields[3], fields[2], fields[1]>>

\* newtour.py:138-170  the loop over the lines: parsed_dates_norm
RECURSIVE ParseLines(_, _)
ParseLines(lines, parsed_dates_norm) ==
    IF lines = <<>> THEN parsed_dates_norm
    ELSE LET line == Head(lines)
             next == IF ~line.sep THEN parsed_dates_norm
                     ELSE IF Len(line.date_part) # 3 THEN parsed_dates_norm
                     ELSE (norm_city(Strip(line.city_part)) :> IsoDate(line.date_part))
                              @@ parsed_dates_norm
         IN  ParseLines(Tail(lines), next)

\* newtour.py:176-185  the cities without a date, and final_shows
MissingHuman(cities_original, parsed_dates_norm) ==
    SelectSeq(cities_original, LAMBDA c : norm_city(c) \notin DOMAIN parsed_dates_norm)

FinalShows(cities_original, parsed_dates_norm) ==
    [c \in {cities_original[i] : i \in 1..Len(cities_original)}
        |-> parsed_dates_norm[norm_city(c)]]

\* the text of a message as int() reads it: an integer, or a ValueError
IntText(n) == [int |-> TRUE, value |-> n]
NotANumber == [int |-> FALSE, value |-> 0]

\* newtour.py:263-267 and 290-294  the text is no integer of the range
BadHours(text, most) == ~text.int \/ text.value < 0 \/ text.value > most

\* newtour.py:57-70  /newtour, in any step
StartTour ==
    /\ ppc = "idle"
    /\ message' = [kind |-> "command", body |-> <<"newtour">>]
    /\ data' = EmptyDict
    /\ state' = "waiting_city_list"
    /\ UNCHANGED <<plannerVars, transportVars, preferenceVars, resolveVars>>

\* newtour.py:72-95
handle_cities(pieces) ==
    /\ ppc = "idle"
    /\ state = "waiting_city_list"
    /\ message' = [kind |-> "cities", body |-> pieces]
    /\ LET cities == CitiesOf(pieces)
       IN  IF TooFewCities(cities)
           THEN UNCHANGED <<state, data>>
           ELSE /\ data' = UpdateData(data, "cities_ordered", cities)
                /\ state' = "waiting_dates"
    /\ UNCHANGED <<plannerVars, transportVars, preferenceVars, resolveVars>>

\* newtour.py:98-218
handle_dates(lines) ==
    /\ ppc = "idle"
    /\ state = "waiting_dates"
    /\ message' = [kind |-> "dates", body |-> lines]
    /\ LET cities_original == data["cities_ordered"]
           parsed_dates_norm == ParseLines(lines, EmptyDict)
       IN  IF MissingHuman(cities_original, parsed_dates_norm) # <<>>
           THEN UNCHANGED <<state, data>>
           ELSE /\ data' = UpdateData(data, "shows",
                                      FinalShows(cities_original, parsed_dates_norm))
                /\ state' = "waiting_transport_pref"
    /\ UNCHANGED <<plannerVars, transportVars, preferenceVars, resolveVars>>

\* newtour.py:245-258  a button "pref:<name>" is pressed
handle_pref(callback_data) ==
    /\ ppc = "idle"
    /\ state = "waiting_transport_pref"
    /\ callback_data[1] = "pref"
    /\ message' = [kind |-> "callback", body |-> callback_data]
    /\ data' = UpdateData(data, "transport_pref", callback_data[2])
    /\ state' = "waiting_buffer_before"
    /\ UNCHANGED <<plannerVars, transportVars, preferenceVars, resolveVars>>

\* newtour.py:261-278
handle_buffer_before(text) ==
    /\ ppc = "idle"
    /\ state = "waiting_buffer_before"
    /\ message' = [kind |-> "hours", body |-> text]
    /\ IF BadHours(text, MaxBufferBefore)
       THEN UNCHANGED <<state, data>>
       ELSE /\ data' = UpdateData(data, "buffer_before_hours", text.value)
            /\ state' = "waiting_buffer_after"
    /\ UNCHANGED <<plannerVars, transportVars, preferenceVars, resolveVars>>

\* newtour.py:281-312  handle_buffer_after up to the call of build_segments
handle_buffer_after(text) ==
    /\ ppc = "idle"
    /\ state = "waiting_buffer_after"
    /\ message' = [kind |-> "hours", body |-> text]
    /\ UNCHANGED <<state, data>>
    /\ IF BadHours(text, MaxBufferAfter)
       THEN UNCHANGED <<plannerVars, transportVars, preferenceVars, resolveVars>>
       ELSE BuildSegmentsCall(data["cities_ordered"], data["shows"],
                              data["buffer_before_hours"], text.value)

\* the frame of build_segments is gone
BuildSegmentsLeft ==
    /\ ppc' = "idle"
    /\ cities_ordered' = <<>>
    /\ shows' = <<>>
    /\ buffer_before_hours' = 0
    /\ buffer_after_hours' = 0
    /\ seg_i' = 0
    /\ out' = <<>>

\* newtour.py:314-365  build_segments has returned: the options of each
\* segment are fetched and the plan is sent (neither touches the stored
\* plan); state.clear()
HandleBufferAfterReturn ==
    /\ state = "waiting_buffer_after"
    /\ ppc = "done"
    /\ BuildSegmentsLeft
    /\ state' = "None"
    /\ data' = EmptyDict
    /\ UNCHANGED <<message, transportVars, preferenceVars, resolveVars>>

\* newtour.py:307  build_segments has raised: the exception leaves the
\* handler, nothing is sent and the step and the plan stay
HandleBufferAfterRaise ==
    /\ state = "waiting_buffer_after"
    /\ ppc \in {"KeyError", "ValueError"}
    /\ BuildSegmentsLeft
    /\ UNCHANGED <<dialogueVars, transportVars, preferenceVars, resolveVars>>

\* the dialogue of one chat: lists of up to MaxPieces pieces, dates messages of
\* up to MaxLines lines
MaxPieces == 3
MaxLines == 2
CityA == <<"A">>
CityBC == <<"b", "-", "c">>
DialoguePieces == {CityA, <<" ">> \o CityBC, <<" ">>}
DialogueCityTexts == SeqsUpTo(DialoguePieces, MaxPieces) \ {<<>>}
\* lines for both cities (in another case, and with a space for the dash):
\* 10.11.2025, 12.11.2025, 30.02.2025, a date without its day, no separator
DialogueLines ==
    { Line(<<"a">>, <<10, 11, 2025>>),
      Line(<<"B", " ", "c">>, <<12, 11, 2025>>),
      Line(<<"B", " ", "c">>, <<30, 2, 2025>>),
      Line(<<"a">>, <<11, 2025>>),
      NoSeparator }
DialogueDateTexts == SeqsUpTo(DialogueLines, MaxLines) \ {<<>>}
DialogueButtons == {<<"pref", "plane">>, <<"pref", "train_first">>}
DialogueHourValues == {0 - 1, 0, 12, MaxBufferAfter, MaxBufferAfter + 1,
                       MaxBufferBefore, MaxBufferBefore + 1}
DialogueHourTexts == {IntText(n) : n \in DialogueHourValues} \cup {NotANumber}
NextDialogue ==
    \/ StartTour
    \/ (ppc = "idle" /\ \E pieces \in DialogueCityTexts : handle_cities(pieces))
    \/ (ppc = "idle" /\ state = "waiting_dates"
           /\ \E lines \in DialogueDateTexts : handle_dates(lines))
    \/ (ppc = "idle" /\ \E callback_data \in DialogueButtons : handle_pref(callback_data))
    \/ (ppc = "idle" /\ \E text \in DialogueHourTexts : handle_buffer_before(text))
    \/ (ppc = "idle" /\ \E text \in DialogueHourTexts : handle_buffer_after(text))
    \/ BuildSegmentsIter
    \/ BuildSegmentsReturn
    \/ HandleBufferAfterReturn
    \/ HandleBufferAfterRaise
SpecDialogue == InitIdle /\ [][NextDialogue]_vars

(***************************************************************************)
(* transport.py: _resolve_place_codes called by concurrent tasks           *)
(***************************************************************************)
\* Two tasks of the event loop (two chats being answered) call
\* _resolve_place_codes on the one module-level _city_cache.  A task runs
\* without interruption up to `await client.suggest_place(city)`; the other
\* task may run while the lookup is in flight.

\* transport.py:256, 261  _city_cache[key] = pc; and a cache that keeps only
\* the last entry
CacheOnlyLast(cache, key, pc) == (key :> pc)
CacheInsert(cache, key, pc) == (key :> pc) @@ cache

\* transport.py:249-260  task t calls _resolve_place_codes(city): it returns at
\* once on a cache hit, a table hit or a blank name, or waits for the GET of
\* suggest_place
ResolveCall(t, city) ==
    /\ resolvers[t].pc = "idle"
    /\ LET key == NormalizeCityKey(city)
           frame == [resolvers[t] EXCEPT !.city = city, !.key = key]
       IN  IF Cached(key, city_cache)
           THEN /\ resolvers' = [resolvers EXCEPT ![t] =
                                    [frame EXCEPT !.result = city_cache[key], !.pc = "done"]]
                /\ UNCHANGED city_cache
           ELSE IF city \in DOMAIN CITY_CODE_MAP
           THEN LET pc == PlaceCodes(GetText(CITY_CODE_MAP[city], "city_code"),
                                     GetList(CITY_CODE_MAP[city], "stations"))
                IN  /\ city_cache' = CacheInsert(city_cache, key, pc)
                    /\ resolvers' = [resolvers EXCEPT ![t] =
                                        [frame EXCEPT !.result = pc, !.pc = "done"]]
           ELSE IF Strip(city) = <<>>
           THEN /\ city_cache' = CacheInsert(city_cache, key, NoCodes)
                /\ resolvers' = [resolvers EXCEPT ![t] =
                                    [frame EXCEPT !.result = NoCodes, !.pc = "done"]]
           ELSE /\ resolvers' = [resolvers EXCEPT ![t] = [frame EXCEPT !.pc = "await"]]
                /\ UNCHANGED city_cache
    /\ UNCHANGED <<api_key, fetch, query, http, calls, lookups>>
    /\ UNCHANGED <<plannerVars, preferenceVars, dialogueVars>>

\* transport.py:117-135 and 260-262  the lookup of task t has come back with
\* the JSON answer (or {} after a failure): the PlaceCodes are stored under the
\* task's key and returned
SuggestArrives(t, answer) ==
    /\ resolvers[t].pc = "await"
    /\ LET pc == PlaceCodesOf(answer)
       IN  /\ lookups' = Append(lookups, [task |-> t, query |-> resolvers[t].city,
                                          value |-> pc])
           /\ city_cache' = CacheInsert(city_cache, resolvers[t].key, pc)
           /\ resolvers' = [resolvers EXCEPT ![t].result = pc, ![t].pc = "done"]
    /\ UNCHANGED <<api_key, fetch, query, http, calls>>
    /\ UNCHANGED <<plannerVars, preferenceVars, dialogueVars>>

\* the caller of task t has the PlaceCodes
ResolveReturn(t) ==
    /\ resolvers[t].pc = "done"
    /\ resolvers' = [resolvers EXCEPT ![t] = IdleResolver]
    /\ UNCHANGED <<lookups, transportVars, plannerVars, preferenceVars, dialogueVars>>

\* concurrent resolves: Kazan in two spellings of one key, a second city the
\* table does not list and a city of the table
KazanLoose == <<" ", "k", "z", "n">>
ConcurrentCities == {Kazan, KazanLoose, NizhniyDash, Moskva}
\* the provider's answers to a lookup of Kazan and of Nizhniy; {} is what
\* suggest_place gets after a failure
KazanAnswers == {SuggestKazan, SuggestStationsOnly, EmptyDict}
NizhniyAnswers == {SuggestNizhniy}
AnswersFor(city) ==
    IF NormalizeCityKey(city) = NormalizeCityKey(Kazan) THEN KazanAnswers ELSE NizhniyAnswers
NextConcurrent ==
    \/ \E t \in Tasks :
          /\ resolvers[t].pc = "idle"
          /\ \E city \in ConcurrentCities : ResolveCall(t, city)
    \/ \E t \in Tasks :
          /\ resolvers[t].pc = "await"
          /\ \E answer \in AnswersFor(resolvers[t].city) : SuggestArrives(t, answer)
    \/ \E t \in Tasks : ResolveReturn(t)
SpecConcurrent == InitIdle /\ [][NextConcurrent]_vars

(***************************************************************************)
(* Properties of build_segments (SpecPlanner)                              *)
(***************************************************************************)
\* every city of the list has a show date that names a calendar day
AllShowsDated ==
    \A k \in 1..Len(cities_ordered) :
        /\ cities_ordered[k] \in DOMAIN shows
        /\ ValidDateStr(shows[cities_ordered[k]])

\* C1: for a list of N >= 2 cities that all have a show date, build_segments
\* returns (raises nothing) exactly N-1 segments, the i-th going from
\* cities[i] to cities[i+1]; repeated cities are allowed.
C1_AdjacentSegments ==
    /\ (ppc \in {"KeyError", "ValueError"}) => ~AllShowsDated
    /\ (ppc = "done" /\ Len(cities_ordered) >= 2) =>
          /\ Len(out) = Len(cities_ordered) - 1
          /\ \A k \in 1..Len(out) :
                /\ out[k].from_city = cities_ordered[k]
                /\ out[k].to_city = cities_ordered[k + 1]

C1_Witness ==
    /\ ppc = "done"
    /\ cities_ordered = << <<"A">>, <<"B">>, <<"A">> >>
    /\ Len(out) = 2
    /\ out[2].from_city = <<"B">>
    /\ out[2].to_city = <<"A">>

\* the fields of the date string of the k-th city of the list
ShowOf(k) == shows[cities_ordered[k]]

\* C2: each segment's earliest_departure is 23:00 of A's show date plus
\* buffer_after_hours, its latest_arrival 12:00 of B's show date minus
\* buffer_before_hours; for A = 2025-11-10, B = 2025-11-11, before = 12,
\* after = 3 that is 2025-11-11T02:00 and 2025-11-11T00:00.
C2_WindowFormula ==
    ppc = "done" =>
        /\ \A k \in 1..Len(out) :
              /\ out[k].earliest_departure =
                    MkDateTime(ShowOf(k)[1], ShowOf(k)[2], ShowOf(k)[3], 23, 0, 0)
                        + buffer_after_hours * 3600
              /\ out[k].latest_arrival =
                    MkDateTime(ShowOf(k + 1)[1], ShowOf(k + 1)[2], ShowOf(k + 1)[3], 12, 0, 0)
                        - buffer_before_hours * 3600
        /\ ( /\ cities_ordered = << <<"A">>, <<"B">> >>
             /\ shows[<<"A">>] = <<2025, 11, 10>>
             /\ shows[<<"B">>] = <<2025, 11, 11>>
             /\ buffer_before_hours = 12
             /\ buffer_after_hours = 3 ) =>
                /\ out[1].earliest_departure = MkDateTime(2025, 11, 11, 2, 0, 0)
                /\ out[1].latest_arrival = MkDateTime(2025, 11, 11, 0, 0, 0)

C2_Witness ==
    /\ ppc = "done"
    /\ cities_ordered = << <<"A">>, <<"B">> >>
    /\ shows[<<"A">>] = <<2025, 11, 10>>
    /\ shows[<<"B">>] = <<2025, 11, 11>>
    /\ buffer_before_hours = 12
    /\ buffer_after_hours = 3
    /\ Len(out) = 1
    /\ out[1].earliest_departure > out[1].latest_arrival

\* the segment build_segments makes for the k-th pair of the present call
\* when the buffers are (before, after) instead
SegmentWith(k, before, after) ==
    SegmentWindow(cities_ordered[k], cities_ordered[k + 1], ShowOf(k), ShowOf(k + 1),
                  before, after)

\* C3 as stated: latest_arrival = show_end(from) + bufferAfter, non-decreasing
\* in bufferAfter, and earliest_departure unchanged when only bufferAfter
\* changes.
C3_AsStated ==
    ppc = "done" =>
        \A k \in 1..Len(out) :
            /\ out[k].latest_arrival =
                  ShowEnd(out[k].concert_from_date) + buffer_after_hours * 3600
            /\ \A a2 \in 0..MaxBufferAfter :
                  /\ (buffer_after_hours <= a2) =>
                        out[k].latest_arrival
                            <= SegmentWith(k, buffer_before_hours, a2).latest_arrival
                  /\ out[k].earliest_departure
                        = SegmentWith(k, buffer_before_hours, a2).earliest_departure

\* C3 (amended): earliest_departure = show_end(from) + bufferAfter is
\* non-decreasing in bufferAfter and latest_arrival does not change when only
\* bufferAfter changes; latest_arrival = ready_time(to) - bufferBefore is
\* non-increasing in bufferBefore and earliest_departure does not change when
\* only bufferBefore changes (before in [0,72], after in [0,48]).
C3_BufferMonotone ==
    ppc = "done" =>
        \A k \in 1..Len(out) :
            /\ out[k].earliest_departure =
                  ShowEnd(out[k].concert_from_date) + buffer_after_hours * 3600
            /\ out[k].latest_arrival =
                  MustBeReady(out[k].concert_to_date) - buffer_before_hours * 3600
            /\ \A a2 \in 0..MaxBufferAfter :
                  /\ (buffer_after_hours <= a2) =>
                        out[k].earliest_departure
                            <= SegmentWith(k, buffer_before_hours, a2).earliest_departure
                  /\ out[k].latest_arrival
                        = SegmentWith(k, buffer_before_hours, a2).latest_arrival
            /\ \A b2 \in 0..MaxBufferBefore :
                  /\ (buffer_before_hours <= b2) =>
                        out[k].latest_arrival
                            >= SegmentWith(k, b2, buffer_after_hours).latest_arrival
                  /\ out[k].earliest_departure
                        = SegmentWith(k, b2, buffer_after_hours).earliest_departure

C3_Witness ==
    /\ ppc = "done"
    /\ Len(out) = 2
    /\ buffer_after_hours = 47
    /\ buffer_before_hours = 12
    /\ out[1].earliest_departure
          < SegmentWith(1, buffer_before_hours, MaxBufferAfter).earliest_departure

(***************************************************************************)
(* Properties of YandexRaspClient._get_json (SpecHttp)                     *)
(***************************************************************************)
\* the GETs of the present _get_json call, in order
Gets(log) == SelectSeq(log, LAMBDA e : e.ev = "get")

\* a connection/timeout error or a status in {429,500,502,503,504}
TransientFailure(outcome) ==
    outcome.kind \in {"error", "timeout"} \/ outcome.status \in {429, 500, 502, 503, 504}

C6_OtherStatusReturnsAtOnce ==
    \A k \in 1..Len(http.log) :
        ( /\ http.log[k].ev = "get"
          /\ http.log[k].outcome.kind = "response"
          /\ http.log[k].outcome.status \notin {200, 429, 500, 502, 503, 504} )
        => /\ k = Len(http.log)
           /\ http.pc = "ret"
           /\ http.result = EmptyDict

C6_Witness ==
    /\ http.pc = "ret"
    /\ Len(http.log) = 3
    /\ http.log[1].outcome.status = 500
    /\ http.log[2].ev = "sleep"
    /\ http.log[3].ev = "get"
    /\ http.log[3].outcome.status = 404
    /\ http.result = EmptyDict

(***************************************************************************)
(* Properties of _search_all_options_for_date (SpecPaging)                 *)
(***************************************************************************)
\* C7: one (date, transport type) query makes at most 10 search calls,
\* whatever totals the provider reports.
C7_AtMostTenPages ==
    /\ query.pages <= 10
    /\ query.offset <= 10 * 100
    /\ fetch.pc = "done" => calls.search <= 10 * Len(Transports) * Len(fetch.dates)

C7_Witness ==
    /\ query.pc = "return"
    /\ query.pages = 10
    /\ query.offset = 1000
    /\ Len(query.all_options) = 10

(***************************************************************************)
(* Properties of fetch_real_options (SpecFetch, SpecResolve)               *)
(***************************************************************************)
\* C4 as stated: with window_start > window_end fetch_real_options returns an
\* empty list whatever the provider answers.
C4_InvertedWindowEmpty ==
    (fetch.pc = "done" /\ fetch.window_start > fetch.window_end) => fetch.result = <<>>

KeyConfigured == api_key # None /\ api_key # <<>>

\* no settlement code and no station code
HasNoCode(codes) == codes.city_code = None /\ codes.stations = <<>>

\* both cities of the present call have been resolved
BothResolved == fetch.pc \in {"query", "in_query", "done"} /\ KeyConfigured

\* C8: when the origin or the destination resolves to no code,
\* fetch_real_options returns an empty list and makes no search call.
C8_UnresolvedMakesNoSearch ==
    (BothResolved /\ (HasNoCode(fetch.from_codes) \/ HasNoCode(fetch.to_codes)))
        => /\ fetch.pc = "done"
           /\ fetch.result = <<>>
           /\ calls.search = 0
           /\ query = IdleQuery

C8_Witness ==
    /\ BothResolved
    /\ fetch.from_city = Moskva
    /\ fetch.from_codes.city_code = CodeMoskva
    /\ fetch.to_city = Kazan
    /\ HasNoCode(fetch.to_codes)
    /\ calls.suggest = 1
    /\ fetch.pc = "done"
    /\ fetch.window_start < fetch.window_end

\* C9: without an API key (None or empty) every fetch_real_options call
\* returns an empty list, makes no suggest, search or HTTP call and leaves the
\* location cache as it was.
C9_NoKeyNoCalls ==
    ~KeyConfigured =>
        /\ fetch.pc \in {"idle", "done"}
        /\ fetch.result = <<>>
        /\ calls.suggest = 0
        /\ calls.search = 0
        /\ http = IdleHttp
        /\ query = IdleQuery
        /\ city_cache = <<>>

C9_Witness ==
    /\ api_key = None
    /\ fetch.pc = "done"
    /\ fetch.from_city = Kazan
    /\ fetch.to_city = Moskva
    /\ fetch.window_start < fetch.window_end
    /\ calls.fetch = 1

\* C10 as stated: a city of the static table resolves to the table's code,
\* whatever was resolved before, and never by a remote suggest call.
C10_TableBeforeCache ==
    /\ ( /\ fetch.pc \in {"resolve_to", "suggest_to", "codes", "query", "in_query", "done"}
         /\ fetch.from_city \in DOMAIN CITY_CODE_MAP )
          => fetch.from_codes.city_code = CITY_CODE_MAP[fetch.from_city].city_code
    /\ ( /\ fetch.pc \in {"codes", "query", "in_query", "done"}
         /\ fetch.to_city \in DOMAIN CITY_CODE_MAP )
          => fetch.to_codes.city_code = CITY_CODE_MAP[fetch.to_city].city_code
    /\ fetch.pc = "suggest_from" => fetch.from_city \notin DOMAIN CITY_CODE_MAP
    /\ fetch.pc = "suggest_to" => fetch.to_city \notin DOMAIN CITY_CODE_MAP

(***************************************************************************)
(* Properties of _resolve_place_codes (SpecSpelling, SpecResolve)          *)
(***************************************************************************)
\* a name with every dash read as a space
DashAsSpace(name) == [i \in 1..Len(name) |-> IF name[i] = "-" THEN " " ELSE name[i]]

\* two spellings of one city: equal up to case, surrounding and repeated
\* whitespace, and dash versus space
SameCity(a, b) ==
    NormalizeCityKey(DashAsSpace(a)) = NormalizeCityKey(DashAsSpace(b))

\* C11 as stated: spellings of one city share one cache key, so no two cache
\* keys name the same city, and no suggest call is made for a city of which
\* some spelling is cached already.
C11_SpellingsShareEntry ==
    /\ \A k1 \in DOMAIN city_cache : \A k2 \in DOMAIN city_cache :
          SameCity(k1, k2) => k1 = k2
    /\ fetch.pc \in {"suggest_from", "suggest_to"}
          => \A k \in DOMAIN city_cache : ~SameCity(k, ResolvedCity)

\* the part of C11 that the code keeps: spellings that differ by case or by
\* surrounding and repeated whitespace only
C11_CaseAndWhitespace ==
    fetch.pc \in {"suggest_from", "suggest_to"}
        => \A k \in DOMAIN city_cache :
              NormalizeCityKey(k) # NormalizeCityKey(ResolvedCity)

\* the names resolved so far in the present call, each with what the call got
\* for it
ResolvedSoFar ==
    (IF fetch.pc \in {"resolve_to", "suggest_to", "codes", "query", "in_query"}
     THEN {<<fetch.from_city, fetch.from_codes>>} ELSE {})
    \cup (IF fetch.pc \in {"codes", "query", "in_query"}
          THEN {<<fetch.to_city, fetch.to_codes>>} ELSE {})

\* C12: a completed resolve leaves its result in the cache under the
\* normalized name; every resolve returns what the cache holds for the name;
\* no suggest call is made for a cached name, the all-empty result included;
\* and no cache entry is ever removed or changed.
C12_CachedResolveIsFinal ==
    /\ [](\A r \in ResolvedSoFar :
             /\ NormalizeCityKey(r[1]) \in DOMAIN city_cache
             /\ city_cache[NormalizeCityKey(r[1])] = r[2])
    /\ [](fetch.pc \in {"suggest_from", "suggest_to"}
             => NormalizeCityKey(ResolvedCity) \notin DOMAIN city_cache)
    /\ [][\A k \in DOMAIN city_cache :
             k \in DOMAIN city_cache' /\ city_cache'[k] = city_cache[k]]_vars

\* the second call resolves "Казань" from the cache, where the first call left
\* the all-empty value, without a suggest call
C12_Witness ==
    /\ calls.fetch = 2
    /\ fetch.pc = "resolve_to"
    /\ fetch.from_city = Kazan
    /\ HasNoCode(fetch.from_codes)
    /\ city_cache[NormalizeCityKey(Kazan)] = NoCodes
    /\ calls.suggest = 0

(***************************************************************************)
(* Properties of the aggregation in fetch_real_options                     *)
(***************************************************************************)
\* the deduplication keys of a list of options
KeysOf(options) == {DedupKey(options[i]) : i \in 1..Len(options)}

\* the option lies in the window, both bounds included
InWindow(opt) ==
    opt.depart_time >= fetch.window_start /\ opt.arrive_time <= fetch.window_end

\* C13: every option kept or returned departs at or after window_start and
\* arrives at or before window_end (so one a second off either bound is
\* dropped), and every option of a finished query that lies in the window,
\* the bounds included, is in the list after the query is aggregated.
C13_WindowInclusive ==
    /\ [](/\ \A i \in 1..Len(fetch.all_options) : InWindow(fetch.all_options[i])
          /\ \A i \in 1..Len(fetch.result) : InWindow(fetch.result[i]))
    /\ [][(fetch.pc = "in_query" /\ query.pc = "return")
            => \A k \in 1..Len(query.all_options) :
                  InWindow(query.all_options[k])
                     => DedupKey(query.all_options[k]) \in KeysOf(fetch'.all_options)]_vars

\* the plane query gave the entries on the two bounds, both kept; the train
\* query has the two entries one second off the bounds, about to be dropped
C13_Witness ==
    /\ fetch.pc = "in_query"
    /\ query.pc = "return"
    /\ query.transport = "train"
    /\ Len(fetch.all_options) = 2
    /\ fetch.all_options[1].depart_time = fetch.window_start
    /\ fetch.all_options[2].arrive_time = fetch.window_end
    /\ Len(query.all_options) = 2
    /\ query.all_options[1].depart_time = fetch.window_start - 1
    /\ query.all_options[2].arrive_time = fetch.window_end + 1

\* the identity of an option for deduplication: the thread id, or the title
\* when there is none, with the departure
IdentityOf(opt) ==
    <<IF opt.thread_uid = None \/ opt.thread_uid = <<>> THEN opt.title ELSE opt.thread_uid,
      opt.depart_time>>

\* no two options of the list share an identity
DistinctIdentities(options) ==
    \A i \in 1..Len(options) : \A j \in 1..Len(options) :
        i # j => IdentityOf(options[i]) # IdentityOf(options[j])

OptionsOf(options) == {options[i] : i \in 1..Len(options)}

\* C15: the returned list is in non-decreasing order of depart_time over the
\* whole list, and it holds exactly the options that the queries left.
C15_SortedByDeparture ==
    /\ [](fetch.pc = "done"
            => \A i \in 1..Len(fetch.result) : \A j \in 1..Len(fetch.result) :
                  i < j => fetch.result[i].depart_time <= fetch.result[j].depart_time)
    /\ [][(fetch.pc = "query" /\ fetch'.pc = "done")
            => /\ Len(fetch'.result) = Len(fetch.all_options)
               /\ OptionsOf(fetch'.result) = OptionsOf(fetch.all_options)]_vars

\* three options are returned, the 06:00 departure last although its page
\* lists it before the 05:00 one
C15_Witness ==
    /\ fetch.pc = "done"
    /\ calls.search >= 4
    /\ Len(fetch.result) = 3
    /\ fetch.result[1].depart_time = fetch.result[2].depart_time
    /\ fetch.result[2].depart_time < fetch.result[3].depart_time
    /\ fetch.result[3].thread_uid = fetch.result[1].thread_uid

\* the option goes to the resolved destination: to its primary code or to one
\* of its station codes
ToDestination(opt) ==
    /\ opt.to_code # None
    /\ \/ opt.to_code = PrimaryCode(fetch.to_codes)
       \/ \E i \in 1..Len(fetch.to_codes.stations) : opt.to_code = fetch.to_codes.stations[i]

\* C16: every option parsed for a query, kept or returned has the primary code
\* or a station code of the resolved destination as its destination code; an
\* entry with another code or with none is in none of the lists.
C16_DestinationMatches ==
    /\ \A i \in 1..Len(query.all_options) : ToDestination(query.all_options[i])
    /\ \A i \in 1..Len(fetch.all_options) : ToDestination(fetch.all_options[i])
    /\ \A i \in 1..Len(fetch.result) : ToDestination(fetch.result[i])

\* Moskva -> Kazan with Kazan resolved to c43 and station s96: a page with an
\* entry without destination, one to s96 and one to c9 leaves the one to s96
C16_Witness ==
    /\ fetch.pc = "in_query"
    /\ query.pc = "return"
    /\ fetch.to_city = Kazan
    /\ fetch.to_codes = PlaceCodes(CodeKazan, <<StationKazan>>)
    /\ query.all_options # <<>>
    /\ query.all_options[1].to_code = StationKazan
    /\ query.all_options[1].depart_time = MkDateTime(2025, 11, 11, 5, 0, 0)

(***************************************************************************)
(* Properties of filter_and_sort_options (SpecPreference)                  *)
(***************************************************************************)
\* the options of the list that are of the kind, in the order of the list
OfKind(options, kind) == SelectSeq(options, LAMBDA o : o.kind = kind)
\* and those that are not
NotOfKind(options, kind) == SelectSeq(options, LAMBDA o : o.kind # kind)

C18_ThatKindFirstStable ==
    fpc = "done" =>
        /\ pref = "plane_first"
              => opts_sorted = OfKind(real_opts, "plane") \o NotOfKind(real_opts, "plane")
        /\ pref = "train_first"
              => opts_sorted = OfKind(real_opts, "train") \o NotOfKind(real_opts, "train")

\* train, plane, bus, plane under plane_first: plane, plane, train, bus
C18_Witness ==
    /\ fpc = "done"
    /\ pref = "plane_first"
    /\ Len(real_opts) = 4
    /\ real_opts[1].kind = "train"
    /\ real_opts[2].kind = "plane"
    /\ real_opts[3].kind = "other"
    /\ real_opts[4].kind = "plane"
    /\ real_opts[2] # real_opts[4]
    /\ opts_sorted = <<real_opts[2], real_opts[4], real_opts[1], real_opts[3]>>

MoreReported ==
    /\ query.pc = "await"
    /\ http.pc = "ret"
    /\ "pagination" \in DOMAIN http.result
    /\ "total" \in DOMAIN http.result["pagination"]
    /\ http.result["pagination"]["total"] > query.offset + 100

\* C20 as stated: while fewer than 10 pages have been fetched and the reported
\* total exceeds offset + limit, the query goes on to the next page at
\* offset + limit, also when the page in hand gave no accepted entry.
C20_NextPageWhileMore ==
    [][(MoreReported /\ query.pages < 10)
          => (query'.pc = "call" /\ query'.offset = query.offset + 100)]_vars

\* the part of C20 that the code keeps: the same when the page in hand gave
\* at least one accepted entry
C20_NextPageAfterEntries ==
    [][(/\ MoreReported
        /\ query.pages < 10
        /\ ParseSegments(http.result, fetch.allow_to_codes) # <<>>)
          => (query'.pc = "call" /\ query'.offset = query.offset + 100)]_vars

(***************************************************************************)
(* The dates and transport types queried (SpecDates)                       *)
(***************************************************************************)
\* the number of calendar dates from the day of window_start to the day of
\* window_end, both included
DaysSpanned ==
    IF DateOf(fetch.window_end) < DateOf(fetch.window_start) THEN 0
    ELSE DateOf(fetch.window_end) - DateOf(fetch.window_start) + 1

\* C21: with one page per query, the n-th search call of a fetch is for the
\* date (n - 1) \div 2 days after the day of window_start, for plane when n is
\* odd and for train when n is even; the fetch ends after two calls for each
\* date from the day of window_start to the day of window_end; and it makes no
\* search call when the day of window_end is before the day of window_start.
C21_EveryDateBothTypes ==
    /\ fetch.pc # "idle" => calls.search <= 2 * DaysSpanned
    /\ query.pc \in {"await", "return"}
          => /\ query.date
                  = FromOrdinal(DateOf(fetch.window_start) + ((calls.search - 1) \div 2))
             /\ query.transport = (IF calls.search % 2 = 1 THEN "plane" ELSE "train")
    /\ (fetch.pc = "done" /\ BothResolved) => calls.search = 2 * DaysSpanned

\* the window 2025-11-30T02:00 .. 2025-12-02T00:00 has been queried: six
\* search calls, the last for trains on 2025-12-02
C21_Witness ==
    /\ fetch.pc = "done"
    /\ BothResolved
    /\ DateOf(fetch.window_start) = ToOrdinal(2025, 11, 30)
    /\ DateOf(fetch.window_end) = ToOrdinal(2025, 12, 2)
    /\ fetch.dates = <<<<2025, 11, 30>>, <<2025, 12, 1>>, <<2025, 12, 2>>>>
    /\ calls.search = 6

(***************************************************************************)
(* The backoff waits of _get_json (SpecHttp)                               *)
(***************************************************************************)
\* the schedule 0.5, 1, 2, 4 seconds, in milliseconds
ScheduleMs == <<500, 1000, 2000, 4000>>
Sleeps(log) == SelectSeq(log, LAMBDA e : e.ev = "sleep")
Failures(log) == SelectSeq(Gets(log), LAMBDA e : TransientFailure(e.outcome))

\* the delays slept so far are the first ones of the schedule, in its order,
\* one for each transient failure
DelaysFollowSchedule ==
    /\ Len(Sleeps(http.log)) <= Len(ScheduleMs)
    /\ \A k \in 1..Len(Sleeps(http.log)) : Sleeps(http.log)[k].delay = ScheduleMs[k]
    /\ Len(Sleeps(http.log)) = Len(Failures(http.log))

\* C25: within one _get_json call the delays slept are a prefix of the
\* schedule (0.5, 1, 2, 4) seconds in that order, one per transient failure,
\* and every wait is followed by a further GET: the wait is either followed by
\* a GET already, or the call is still running with fewer than 4 GETs made,
\* so that no wait comes after the final attempt.
C25_WaitThenRetry ==
    /\ DelaysFollowSchedule
    /\ \A k \in 1..Len(http.log) :
          http.log[k].ev = "sleep"
             => IF k < Len(http.log)
                THEN http.log[k + 1].ev = "get"
                ELSE http.pc = "attempt" /\ Len(Gets(http.log)) < 4

\* what does hold: the delays follow the schedule, and each of the first three
\* waits is followed by a GET once the call has ended
C25_FirstThreeWaitsRetry ==
    /\ DelaysFollowSchedule
    /\ http.pc = "ret"
          => \A k \in 1..Len(http.log) :
                (http.log[k].ev = "sleep" /\ http.log[k].delay # 4000)
                   => (k < Len(http.log) /\ http.log[k + 1].ev = "get")

\* four transient failures: the call has ended with {} and the last thing it
\* did was to sleep 4 seconds
C25_SleptAfterLastAttempt ==
    /\ http.pc = "ret"
    /\ http.result = EmptyDict
    /\ Len(Gets(http.log)) = 4
    /\ http.log[Len(http.log)] = SleepEvent(4000)

(***************************************************************************)
(* A failed page after pages that succeeded (SpecPaging)                   *)
(***************************************************************************)
\* _get_json has returned without a 200: its retries are used up, or the
\* status was not one that is retried
FailedPage ==
    /\ http.pc = "ret"
    /\ http.url = "search"
    /\ LET last == Gets(http.log)[Len(Gets(http.log))].outcome
       IN  last.kind # "response" \/ last.status # 200

IsPrefix(s, t) == Len(s) <= Len(t) /\ SubSeq(t, 1, Len(s)) = s

\* C26: a search page that ends in an empty result (retries used up or a
\* status that is not retried) ends the pagination of its query and leaves the
\* options of the query's earlier pages as they are; the options of a query
\* stay in its list as long as the query runs; aggregating the query keeps
\* every option of the earlier queries in place and takes in every option of
\* the query that lies in the window (under its deduplication identity); and
\* the returned list holds every option aggregated.
C26_FailedPageKeepsCollected ==
    /\ [][(query.pc = "await" /\ FailedPage /\ query'.pc # "await")
            => (query'.pc = "return" /\ query'.all_options = query.all_options)]_vars
    /\ [][(query.pc # "idle" /\ query'.pc # "idle")
            => IsPrefix(query.all_options, query'.all_options)]_vars
    /\ [][(fetch.pc \in {"query", "in_query"} /\ fetch'.pc \in {"query", "in_query"})
            => IsPrefix(fetch.all_options, fetch'.all_options)]_vars
    /\ [][(fetch.pc = "in_query" /\ fetch'.pc = "query")
            => \A k \in 1..Len(query.all_options) :
                  InWindow(query.all_options[k])
                     => \E j \in 1..Len(fetch'.all_options) :
                           IdentityOf(fetch'.all_options[j])
                              = IdentityOf(query.all_options[k])]_vars
    /\ [][(fetch.pc = "query" /\ fetch'.pc = "done")
            => OptionsOf(fetch.all_options) \subseteq OptionsOf(fetch'.result)]_vars

\* the train query of the date follows a plane query that left an option; its
\* first page gave an option and reported more, and its second page has come
\* back empty after a 404
C26_Witness ==
    /\ query.pc = "await"
    /\ FailedPage
    /\ Len(Gets(http.log)) = 1
    /\ http.log[1].outcome.status = 404
    /\ query.transport = "train"
    /\ query.pages = 2
    /\ Len(query.all_options) = 1
    /\ Len(fetch.all_options) = 1

(***************************************************************************)
(* What the dialogue hands to build_segments (SpecDialogue)                *)
(***************************************************************************)
\* the words of a city name, case and dashes apart
WordsOf(name) == Split(Lower([i \in 1..Len(name) |-> IF name[i] = "-" THEN " " ELSE name[i]]))

\* the dates message has a line for the city: a separator, the city's name and
\* a date of three fields
HasDateLine(lines, city) ==
    \E k \in 1..Len(lines) :
        /\ lines[k].sep
        /\ WordsOf(lines[k].city_part) = WordsOf(city)
        /\ Len(lines[k].date_part) = 3

\* the text is an integer from 0 to most
HoursWithin(text, most) == text.int /\ text.value \in 0..most

\* the update just taken fails the check of the step it arrived in
InputFailsCheck ==
    \/ /\ state = "waiting_city_list"
       /\ message'.kind = "cities"
       /\ Cardinality({i \in 1..Len(message'.body) : Strip(message'.body[i]) # <<>>}) < 2
    \/ /\ state = "waiting_dates"
       /\ message'.kind = "dates"
       /\ \E i \in 1..Len(data["cities_ordered"]) :
             ~HasDateLine(message'.body, data["cities_ordered"][i])
    \/ /\ state = "waiting_buffer_before"
       /\ message'.kind = "hours"
       /\ ~HoursWithin(message'.body, 72)
    \/ /\ state = "waiting_buffer_after"
       /\ ppc = "idle"
       /\ message'.kind = "hours"
       /\ ~HoursWithin(message'.body, 48)

C23_StoredDatesAreValid ==
    /\ "shows" \in DOMAIN data
          => \A c \in DOMAIN data["shows"] : ValidDateStr(data["shows"][c])
    /\ ppc # "ValueError"

\* the dialogue has accepted a dates message with 30.02.2025 in it, and
\* build_segments has raised a ValueError on it
C23_ValueErrorOnAcceptedDate ==
    /\ state = "waiting_buffer_after"
    /\ ppc = "ValueError"
    /\ \E c \in DOMAIN data["shows"] : data["shows"][c] = <<2025, 2, 30>>

(***************************************************************************)
(* Interleaved resolves of one name (SpecConcurrent)                       *)
(***************************************************************************)
\* the lookups made so far for names of this key
LookupsOf(key) ==
    SelectSeq(lookups, LAMBDA l : JoinSpace(Split(Lower(l.query))) = key)

\* the name is one the remote lookup is asked for: not blank, not in the table
LookedUp(city) == Strip(city) # <<>> /\ city \notin DOMAIN CITY_CODE_MAP

\* C24: a call for a name that is looked up remotely returns the value of a
\* lookup made for a name of its key; the cache entry of such a key is the
\* value of the latest lookup for it; a key is looked up at most once by each
\* task, so that two interleaved calls cost one duplicate lookup; and a lookup
\* that comes back changes the cache under the key of its own name only,
\* every other entry staying as it was.
C24_InterleavedResolves ==
    /\ [](\A t \in Tasks :
             (resolvers[t].pc = "done" /\ LookedUp(resolvers[t].city))
                => \E k \in 1..Len(LookupsOf(resolvers[t].key)) :
                      LookupsOf(resolvers[t].key)[k].value = resolvers[t].result)
    /\ [](\A key \in DOMAIN city_cache :
             LookupsOf(key) # <<>>
                => city_cache[key] = LookupsOf(key)[Len(LookupsOf(key))].value)
    /\ [](\A key \in DOMAIN city_cache : Len(LookupsOf(key)) <= Cardinality(Tasks))
    /\ [][\A key \in DOMAIN city_cache :
             /\ key \in DOMAIN city_cache'
             /\ city_cache'[key] # city_cache[key]
                   => /\ Len(lookups') = Len(lookups) + 1
                      /\ JoinSpace(Split(Lower(lookups'[Len(lookups')].query))) = key]_vars

\* both tasks missed the cache for Kazan, in two spellings, before either
\* lookup came back; the first got the city code and the second only the
\* station; each task has its own answer and the cache has the second, while
\* the entry of Nizhniy is as it was
C24_Witness ==
    /\ Len(lookups) = 3
    /\ lookups[1].query = NizhniyDash
    /\ lookups[2] = [task |-> 1, query |-> Kazan, value |-> PlaceCodes(CodeKazan, <<StationKazan>>)]
    /\ lookups[3] = [task |-> 2, query |-> KazanLoose, value |-> PlaceCodes(None, <<StationKazan>>)]
    /\ resolvers[1].pc = "done"
    /\ resolvers[1].result = PlaceCodes(CodeKazan, <<StationKazan>>)
    /\ resolvers[2].pc = "done"
    /\ resolvers[2].result = PlaceCodes(None, <<StationKazan>>)
    /\ city_cache[<<"k", "z", "n">>] = PlaceCodes(None, <<StationKazan>>)
    /\ city_cache[<<"n", "-", "n">>] = PlaceCodes(CodeNizhniy, <<>>)

=============================================================================
